---- MODULE Spec2Model ----
(***************************************************************************)
(* Model of the RAG backend's document pipeline control plane:             *)
(* backend/controllers/ragController.js (upload, index, status, listing)   *)
(* and the upload route of backend/routes/api.js; the query handler with   *)
(* the conversation store; signup, verify and login of authController.js;  *)
(* and the chat router with its auth middleware and chatController.js.     *)
(*                                                                         *)
(* Text is modelled as a sequence of tokens (words, digit runs, newlines), *)
(* so that includes(), match(), trim() and parseInt() are computed.        *)
(***************************************************************************)
EXTENDS Integers, Sequences, FiniteSets, TLC

VARIABLES up, indexingStatus, procs, dataFiles, metaFiles, clock,
          lastStep, latestRun, succeeded, pendingUpload,
          staleMeta, storedUpload, uploadedDocs,
          messages, conversations, queries, now,
          users, authRequests, mailbox, issued, verifications,
          chatRequests

\* History of the uploads: which metadata files describe replaced content,
\* which uploaded document the upload file holds, which were uploaded.
uploadHistory == <<staleMeta, storedUpload, uploadedDocs>>

\* The conversation store (Message and Conversation collections), the
\* query requests received so far, and the time of the store's Date.now.
chatVars == <<messages, conversations, queries, now>>

\* The User collection, the signup, verify and login requests received so
\* far, the verification tokens delivered by email, the access tokens login
\* has issued, and the users a verify request has verified. chatRequests
\* are the requests to the chat router received so far.
authVars == <<users, authRequests, mailbox, issued, verifications>>

vars == <<up, indexingStatus, procs, dataFiles, metaFiles, clock,
          lastStep, latestRun, succeeded, pendingUpload, uploadHistory,
          chatVars, authVars, chatRequests>>

(* ------------------------------ bounds -------------------------------- *)

\* Accepted index requests per session (also the range of the logical clock).
MaxRuns == 2

(* ------------------------------- text --------------------------------- *)

Null == [null |-> TRUE]
Undefined == [undefined |-> TRUE]
Str(toks) == [str |-> toks]
W(s) == [word |-> s]
D(ds) == [digits |-> ds]
NL == [ws |-> "nl"]

IsDigits(t) == "digits" \in DOMAIN t
IsSpace(t) == "ws" \in DOMAIN t

\* String.prototype.includes, on token sequences.
Includes(s, w) == \E i \in 1..Len(s) : s[i] = W(w)

\* String.prototype.trim: drops leading and trailing whitespace.
RECURSIVE TrimLeft(_)
TrimLeft(s) ==
    IF s # <<>> /\ IsSpace(Head(s)) THEN TrimLeft(Tail(s)) ELSE s

RECURSIVE TrimRight(_)
TrimRight(s) ==
    IF s # <<>> /\ IsSpace(s[Len(s)])
    THEN TrimRight(SubSeq(s, 1, Len(s) - 1))
    ELSE s

Trim(s) == TrimRight(TrimLeft(s))

\* parseInt of a run of decimal digits.
RECURSIVE parseInt(_)
parseInt(ds) ==
    IF ds = <<>> THEN 0
    ELSE parseInt(SubSeq(ds, 1, Len(ds) - 1)) * 10 + ds[Len(ds)]

NoMatch == [nomatch |-> TRUE]

\* output.match(/progress: (\d+)/): the digits of the first match.
ProgressMatch(output) ==
    LET hits == {i \in 1..(Len(output) - 1) :
                    output[i] = W("progress:") /\ IsDigits(output[i + 1])}
    IN IF hits = {} THEN NoMatch
       ELSE LET first == CHOOSE i \in hits : \A j \in hits : i <= j
            IN output[first + 1].digits

(* ------------------------------ files --------------------------------- *)

\* multer's filename callback stores every upload under this one name.
UploadName == "egyptian_history.pdf"

Files == {"egyptian_history.pdf", "nile.pdf"}

\* Names a data directory can also hold: a PDF whose name differs from
\* "nile.pdf" in letter case only, and a file that is no PDF.
ListedFiles == Files \cup {"Nile.pdf", "notes.txt"}

\* The listed names with the extension of a PDF.
PdfNames == ListedFiles \ {"notes.txt"}

\* '.pdf'
DotPdf == <<".", "p", "d", "f">>

\* The characters of the names without extension.
SpellStem(name) ==
    CASE name = "egyptian_history" ->
            <<"e", "g", "y", "p", "t", "i", "a", "n", "_",
              "h", "i", "s", "t", "o", "r", "y">>
      [] name = "nile" -> <<"n", "i", "l", "e">>
      [] name = "Nile" -> <<"N", "i", "l", "e">>
      [] name = "notes" -> <<"n", "o", "t", "e", "s">>
      [] OTHER -> <<name>>

\* The characters of a name.
Spell(name) ==
    CASE name = "egyptian_history.pdf" -> SpellStem("egyptian_history") \o DotPdf
      [] name = "nile.pdf" -> SpellStem("nile") \o DotPdf
      [] name = "Nile.pdf" -> SpellStem("Nile") \o DotPdf
      [] name = "notes.txt" -> SpellStem("notes") \o <<".", "t", "x", "t">>
      [] OTHER -> SpellStem(name)

Stems == {"egyptian_history", "nile", "Nile", "notes"}

\* The name that has the given characters.
Named(chars) ==
    IF \E n \in ListedFiles \cup Stems : Spell(n) = chars
    THEN CHOOSE n \in ListedFiles \cup Stems : Spell(n) = chars
    ELSE chars[1]

\* toLowerCase of one character.
LowerCase(ch) ==
    CASE ch = "N" -> "n" [] ch = "P" -> "p" [] ch = "D" -> "d"
      [] ch = "F" -> "f" [] OTHER -> ch

\* String.prototype.toLowerCase
ToLowerCase(chars) == [i \in DOMAIN chars |-> LowerCase(chars[i])]

\* String.prototype.endsWith
EndsWith(chars, suffix) ==
    /\ Len(chars) >= Len(suffix)
    /\ SubSeq(chars, Len(chars) - Len(suffix) + 1, Len(chars)) = suffix

\* chars.replace(pattern, ''): the first occurrence is taken out.
ReplaceFirst(chars, pattern) ==
    LET hits == {i \in 1..(Len(chars) - Len(pattern) + 1) :
                    SubSeq(chars, i, i + Len(pattern) - 1) = pattern}
    IN IF hits = {} THEN chars
       ELSE LET first == CHOOSE i \in hits : \A j \in hits : i <= j
            IN SubSeq(chars, 1, first - 1)
                  \o SubSeq(chars, first + Len(pattern), Len(chars))

\* file.replace('.pdf', ''), for each name of the model.
BaseNames ==
    [f \in ListedFiles \cup Stems |-> Named(ReplaceFirst(Spell(f), DotPdf))]

\* file.replace('.pdf', '')
BaseName(f) == BaseNames[f]

Bases == {BaseName(f) : f \in Files}

\* name.toLowerCase(), for each name of the model.
LowerNames ==
    [s \in ListedFiles \cup Stems |-> Named(ToLowerCase(Spell(s)))]

\* String.prototype.toLowerCase on a name.
ToLower(s) == LowerNames[s]

\* `${baseFileName}_metadata.json` is identified by its base name.
MetadataOf(f) == BaseName(f)

(* ----------------------------- status --------------------------------- *)

InitialStatus ==
    [isIndexing |-> FALSE, progress |-> 0, error |-> Null, message |-> Null,
     lastIndexed |-> Null, currentFile |-> Null]

\* Mutant of FreshStatus: the previous run's lastIndexed is carried over.
FreshStatusKeepsLastIndexed(filename) ==
    [isIndexing |-> TRUE, progress |-> 0, error |-> Null, message |-> Null,
     lastIndexed |-> indexingStatus.lastIndexed,
     currentFile |-> Str(<<W(filename)>>)]

\* Mutant of FreshStatus: only the fields of the new run are overwritten.
FreshStatusMerges(filename) ==
    [isIndexing |-> TRUE, progress |-> indexingStatus.progress,
     error |-> indexingStatus.error, message |-> Null,
     lastIndexed |-> Null, currentFile |-> Str(<<W(filename)>>)]

\* The object assigned to indexingStatus when a request passes validation.
FreshStatus(filename) ==
    [isIndexing |-> TRUE, progress |-> 0, error |-> Null, message |-> Null,
     lastIndexed |-> Null, currentFile |-> Str(<<W(filename)>>)]

\* new Date().toISOString()
NowIso == [iso |-> clock]

Falsy(v) == v = Null \/ v = Undefined \/ v = Str(<<>>)

\* pythonProcess.stdout.on('data', ...)
StdoutOnData(status, data) ==
    LET output == Trim(data)
    IN IF Includes(output, "progress:")
       THEN LET progressMatch == ProgressMatch(output)
            IN IF progressMatch # NoMatch
               THEN [status EXCEPT !.progress = parseInt(progressMatch)]
               ELSE status
       ELSE IF Includes(output, "completed")
            THEN [status EXCEPT !.message = Str(output)]
            ELSE status

\* pythonProcess.stderr.on('data', ...)
StderrOnData(status, output) ==
    IF Includes(output, "ERROR") \/ Includes(output, "Error:")
    THEN [status EXCEPT !.error = Str(output)]
    ELSE IF Includes(output, "completed") \/ Includes(output, "INFO")
         THEN [status EXCEPT !.message = Str(output)]
         ELSE status

SuccessMessage(filename) ==
    Str(<<W("Indexing of"), W(filename), W("completed successfully")>>)

ExitMessage(code) == Str(<<W("Process exited with code"), D(<<code>>)>>)

\* The code === 0 branch of the close handler.
OnCloseSuccess(status, filename) ==
    LET s1 == [status EXCEPT !.progress = 100, !.lastIndexed = NowIso]
        s2 == IF Falsy(s1.message)
              THEN [s1 EXCEPT !.message = SuccessMessage(filename)]
              ELSE s1
    IN IF ~Falsy(s2.error) /\ Includes(s2.error.str, "INFO")
                           /\ Includes(s2.error.str, "completed")
       THEN [s2 EXCEPT !.error = Null, !.message = s2.error]
       ELSE s2

\* The else branch of the close handler.
OnCloseFailure(status, code) ==
    IF Falsy(status.error)
    THEN [status EXCEPT !.error = ExitMessage(code)]
    ELSE status

\* pythonProcess.on('close', ...)
OnClose(status, filename, code) ==
    LET s == IF code = 0
             THEN OnCloseSuccess(status, filename)
             ELSE OnCloseFailure(status, code)
    IN [s EXCEPT !.isIndexing = FALSE]

\* The catch block of indexDocument.
OnStartError(status, msg) ==
    [status EXCEPT !.isIndexing = FALSE, !.error = Str(<<W(msg)>>)]

(* --------------------------- request inputs --------------------------- *)

Name(f) == [name |-> f]
NonString == [number |-> 123]

\* req.body.filename: absent, a string, or a JSON value that is no string.
FilenameInputs == {Null, NonString} \cup {Name(f) : f \in Files}

IsString(v) == "name" \in DOMAIN v

\* How spawn('python', ...) can end: the child starts; spawn throws; or the
\* child emits 'error' on the next tick (e.g. ENOENT), for which no listener
\* is registered, so the event is thrown and the server process dies.
SpawnOutcomes == {"started", "throws", "errorEvent"}

ExitCodes == {0, 1}

StdoutChunks ==
    { <<W("progress:"), D(<<2, 0>>), NL>>,
      <<W("progress:"), D(<<1, 0, 0>>)>>,
      <<W("progress:"), D(<<2, 5, 0>>)>>,
      <<W("progress:")>>,
      <<W("Indexing"), W("completed"), NL>>,
      <<W("Loading")>> }

StderrChunks ==
    { <<W("ERROR"), W("embedding failed")>>,
      <<W("INFO"), W("completed"), NL>>,
      <<W("Error:"), W("INFO"), W("completed")>>,
      <<W("warning")>> }

(* ------------------------- documents listing -------------------------- *)

\* indexedDocsSet of getDocuments: lower-cased names of the metadata files.
IndexedDocsSet == {ToLower(m) : m \in metaFiles}

\* Mutant of IsIndexed: the flag is taken from the in-memory status.
IsIndexedFromStatus(f) ==
    /\ indexingStatus.lastIndexed # Null
    /\ indexingStatus.currentFile = Str(<<W(f)>>)

\* file.toLowerCase().endsWith('.pdf'), for each name of the model.
LowerPdfNames ==
    {f \in ListedFiles \cup Stems : EndsWith(ToLowerCase(Spell(f)), DotPdf)}

\* pdfFiles of getDocuments: the names that end in '.pdf' once lower-cased.
PdfFiles == dataFiles \cap LowerPdfNames

\* The `indexed` flag getDocuments reports for a PDF of the data directory.
IsIndexed(f) == ToLower(BaseName(f)) \in IndexedDocsSet

\* The documents array of getDocuments.
Documents == {[filename |-> f, id |-> BaseName(f), indexed |-> IsIndexed(f)] :
                 f \in PdfFiles}

(* ------------------------- JSON and JS values ------------------------- *)

List(xs) == [list |-> xs]
Opaque(name) == [obj |-> name]

\* typeof v === 'string'
IsText(v) == "str" \in DOMAIN v

IsList(v) == "list" \in DOMAIN v

\* typeof v === 'object': objects, arrays and null.
TypeOfObject(v) ==
    v = Null \/ IsList(v) \/ "obj" \in DOMAIN v \/ "answer" \in DOMAIN v

\* v.k, for a value that is neither null nor undefined.
Get(v, k) == IF k \in DOMAIN v /\ k \notin {"list", "obj", "str", "number"}
             THEN v[k] ELSE Undefined

\* a || b
Or(a, b) == IF Falsy(a) THEN b ELSE a

\* JSON.stringify(v, null, 2): text for every JSON value, undefined for
\* undefined.
Stringify(v) ==
    IF v = Undefined THEN Undefined
    ELSE IF v = Null THEN Str(<<W("null")>>)
    ELSE IF IsText(v) THEN Str(<<W("\"")>> \o v.str \o <<W("\"")>>)
    ELSE IF "number" \in DOMAIN v THEN Str(<<D(<<1, 2, 3>>)>>)
    ELSE IF IsList(v) THEN Str(<<W("[]")>>)
    ELSE Str(<<W("{}")>>)

\* String(v)
ToText(v) == IF IsText(v) THEN v
             ELSE IF v = Undefined THEN Str(<<W("undefined")>>)
             ELSE Stringify(v)

\* The body res.json() sends: keys whose value is undefined are left out.
Json(body) ==
    [k \in {key \in DOMAIN body : body[key] # Undefined} |-> body[k]]

(* -------------------------- conversation store ------------------------ *)

\* .limit(10) of the history query.
HistoryLimit == 10

\* Query requests handled in one behaviour.
MaxQueries == 2

Conv(c) == [conv |-> c]

\* req.body.conversationId: absent, an existing conversation, or an id no
\* conversation has.
ConvInputs == {Undefined, Conv("c1"), Conv("c9")}

Min(a, b) == IF a < b THEN a ELSE b

\* A stored message. `by` is the query request that wrote it (0: written
\* before, through the chat API).
Message(conv, role, content, timestamp, metadata, by) ==
    [conversationId |-> conv, role |-> role, content |-> content,
     timestamp |-> timestamp, metadata |-> metadata, by |-> by]

\* messageSchema: conversationId, role and content are required; a required
\* string may not be empty.
ValidMessage(conv, role, content) ==
    /\ ~Falsy(conv)
    /\ role \in {"user", "assistant"}
    /\ ~Falsy(content)

\* How the store orders two messages of equal timestamp in a sort: in
\* insertion order or against it.
TieBreaks == {"natural", "reverse"}

\* Message i comes before message j under .sort({timestamp: -1}).
Before(i, j, tie) ==
    \/ messages[i].timestamp > messages[j].timestamp
    \/ /\ messages[i].timestamp = messages[j].timestamp
       /\ IF tie = "natural" THEN i < j ELSE i > j

RECURSIVE SortDesc(_, _)
SortDesc(I, tie) ==
    IF I = {} THEN <<>>
    ELSE LET first == CHOOSE i \in I : \A j \in I \ {i} : Before(i, j, tie)
         IN <<first>> \o SortDesc(I \ {first}, tie)

Limit(s, n) == SubSeq(s, 1, Min(n, Len(s)))

Reverse(s) == [i \in 1..Len(s) |-> s[Len(s) + 1 - i]]

\* Mutant of FindWindow: the messages stay in the order of the sort.
FindWindowNewestFirst(conv, tie) ==
    Limit(SortDesc({i \in 1..Len(messages) :
                       messages[i].conversationId = conv}, tie),
          HistoryLimit)

\* Message.find({conversationId}).sort({timestamp: -1}).limit(10), then
\* reverse(): the positions of the messages found, oldest first.
FindWindow(conv, tie) ==
    Reverse(Limit(SortDesc({i \in 1..Len(messages) :
                               messages[i].conversationId = conv}, tie),
                  HistoryLimit))

\* messages.reverse().map(msg => ({role, content}))
ChatHistoryOf(window) ==
    [k \in 1..Len(window) |->
        [role |-> messages[window[k]].role,
         content |-> messages[window[k]].content]]

(* ----------------------------- model server --------------------------- *)

\* The response object of a model-server reply.
Response(answer, sources, enhanced, original) ==
    [answer |-> answer, sources |-> sources, enhanced_query |-> enhanced,
     original_query |-> original]

\* modelResponse.data
Raw(response) == [response |-> response]

\* The call did not return a 2xx reply (network error, error status).
CallFailed == [failed |-> TRUE]

Answer1 == Str(<<W("Khufu built it.")>>)
Source1 == [page |-> 12]
Enhanced1 == Str(<<W("When did Khufu rule Egypt?")>>)

\* Mutant of ModelRequest: the question is sent with a prefix.
ModelRequestPrefixed(queryText, chatHistory) ==
    [query |-> Str(<<W("Question:")>> \o queryText.str), top_k |-> 5,
     chat_history |-> chatHistory]

\* The body of the POST to the model server's /query.
ModelRequest(queryText, chatHistory) ==
    [query |-> queryText, top_k |-> 5, chat_history |-> chatHistory]

\* The replies of the model server as the README documents them: an answer
\* with its sources; original_query is the query received when the query
\* was rewritten and null when it was not.
ContractReplies(request) ==
    { Raw(Response(Answer1, List(<<Source1>>), Enhanced1, request.query)),
      Raw(Response(Answer1, List(<<>>), Enhanced1, request.query)),
      Raw(Response(Answer1, List(<<Source1>>), Null, Null)),
      Raw(Response(Answer1, List(<<>>), Null, Null)) }

\* Bodies a 2xx reply of the /query call can carry, whatever the server is.
AnyReplies ==
    { Raw(Response(Answer1, List(<<Source1>>), Enhanced1,
                   Str(<<W("Who built the Great Pyramid?")>>))),
      Raw(Response(Answer1, List(<<>>), Undefined, Undefined)),
      Raw(Response(Answer1, Undefined, Str(<<>>), Null)),
      Raw(Response(Undefined, List(<<>>), Undefined, Undefined)),
      Raw(Response(Opaque("answer"), List(<<Source1>>), Undefined, Undefined)),
      Raw(Response(Answer1, Str(<<W("none")>>), Undefined, Undefined)),
      Raw(Answer1),
      Raw(List(<<>>)),
      Raw(Undefined),
      Null }

ApologyText ==
    Str(<<W("I'm sorry, I couldn't generate a proper response. Please try again.")>>)

\* plainTextAnswer, sources, enhancedQuery and originalQuery as queryRag
\* takes them from modelResponse.data.
Parsed(rawData) ==
    IF ~Falsy(rawData) /\ ~Falsy(Get(rawData, "response"))
         /\ TypeOfObject(Get(rawData, "response"))
    THEN LET response == Get(rawData, "response")
         IN [answer |-> IF IsText(Get(response, "answer"))
                        THEN Get(response, "answer")
                        ELSE Stringify(Get(response, "answer")),
             sources |-> Or(Get(response, "sources"), List(<<>>)),
             enhanced_query |-> Or(Get(response, "enhanced_query"), Null),
             original_query |-> Or(Get(response, "original_query"), Null)]
    ELSE [answer |-> ApologyText, sources |-> List(<<>>),
          enhanced_query |-> Null, original_query |-> Null]

(* ------------------------------ actions ------------------------------- *)

NoRun == [state |-> "none"]

\* file.originalname of the documents clients upload.
OriginalNames == {"pyramids.pdf", "dynasties.pdf"}

NoUpload == "none"

IndexInit ==
    /\ up = TRUE
    /\ indexingStatus = InitialStatus
    /\ procs = {}
    /\ dataFiles \in SUBSET Files
    /\ metaFiles \in SUBSET Bases
    /\ clock = 0
    /\ lastStep = [op |-> "start"]
    /\ latestRun = NoRun
    /\ succeeded = {}
    /\ pendingUpload = {}
    /\ staleMeta = {}
    /\ storedUpload = NoUpload
    /\ uploadedDocs = {}
    /\ messages = <<>>
    /\ conversations = {}
    /\ queries = <<>>
    /\ now = 0
    /\ users = {}
    /\ authRequests = <<>>
    /\ mailbox = {}
    /\ issued = {}
    /\ verifications = {}
    /\ chatRequests = <<>>

\* multer's filename callback: the name the upload is stored under.
StoredName(originalname) == UploadName

\* POST /upload: multer stores the file as UploadName, then uploadPdf removes
\* the metadata file of that name if it can.
UploadPdf(originalname, hasFile, unlinkOk) ==
    /\ up
    /\ IF ~hasFile
       THEN /\ lastStep' = [op |-> "upload", code |-> 400]
            /\ UNCHANGED <<dataFiles, metaFiles, pendingUpload, procs,
                           uploadHistory>>
       ELSE /\ dataFiles' = dataFiles \cup {StoredName(originalname)}
            /\ metaFiles' = IF MetadataOf(StoredName(originalname)) \in metaFiles
                               /\ unlinkOk
                            THEN metaFiles \ {MetadataOf(StoredName(originalname))}
                            ELSE metaFiles
            /\ lastStep' = [op |-> "upload", code |-> 200,
                            file |-> StoredName(originalname)]
            /\ pendingUpload' = pendingUpload \cup {StoredName(originalname)}
            /\ procs' = {IF p.file = StoredName(originalname)
                         THEN [p EXCEPT !.stale = TRUE] ELSE p : p \in procs}
            /\ staleMeta' =
                  IF MetadataOf(StoredName(originalname)) \in metaFiles'
                  THEN staleMeta \cup {MetadataOf(StoredName(originalname))}
                  ELSE staleMeta \ {MetadataOf(StoredName(originalname))}
            /\ storedUpload' = originalname
            /\ uploadedDocs' = uploadedDocs \cup {originalname}
    /\ UNCHANGED <<up, indexingStatus, clock, latestRun, succeeded, chatVars, authVars, chatRequests>>

\* Mutant of AlreadyIndexing: the guard is missing.
AlreadyIndexingNever(filename) == FALSE

\* Mutant of AlreadyIndexing: the guard looks only at the requested document.
AlreadyIndexingSameFile(filename) ==
    /\ indexingStatus.isIndexing
    /\ IsString(filename)
    /\ indexingStatus.currentFile = Str(<<W(filename.name)>>)

\* The 409 guard of indexDocument, evaluated for a request.
AlreadyIndexing(filename) == indexingStatus.isIndexing

\* Mutant of IndexDocumentRejected: the 404 answer is also recorded as the
\* status error.
IndexDocumentRejectedRecordsError(filename) ==
    /\ up
    /\ \/ /\ AlreadyIndexing(filename)
          /\ lastStep' = [op |-> "index", req |-> filename, code |-> 409]
          /\ UNCHANGED indexingStatus
       \/ /\ ~AlreadyIndexing(filename)
          /\ Falsy(filename)
          /\ lastStep' = [op |-> "index", req |-> filename, code |-> 400]
          /\ UNCHANGED indexingStatus
       \/ /\ ~AlreadyIndexing(filename)
          /\ IsString(filename)
          /\ filename.name \notin dataFiles
          /\ lastStep' = [op |-> "index", req |-> filename, code |-> 404]
          /\ indexingStatus' = OnStartError(indexingStatus, "not found")
    /\ UNCHANGED <<up, procs, dataFiles, metaFiles, clock,
                   latestRun, succeeded, pendingUpload, uploadHistory,
                   chatVars, authVars, chatRequests>>

\* POST /index, rejected before the status is touched.
IndexDocumentRejected(filename) ==
    /\ up
    /\ \/ /\ AlreadyIndexing(filename)
          /\ lastStep' = [op |-> "index", req |-> filename, code |-> 409]
       \/ /\ ~AlreadyIndexing(filename)
          /\ Falsy(filename)
          /\ lastStep' = [op |-> "index", req |-> filename, code |-> 400]
       \/ /\ ~AlreadyIndexing(filename)
          /\ IsString(filename)
          /\ filename.name \notin dataFiles
          /\ lastStep' = [op |-> "index", req |-> filename, code |-> 404]
    /\ UNCHANGED <<up, indexingStatus, procs, dataFiles, metaFiles, clock,
                   latestRun, succeeded, pendingUpload, uploadHistory,
                   chatVars, authVars, chatRequests>>

\* POST /index with a filename that is no string: path.join throws before
\* the status is replaced, and the catch block writes into the old status.
IndexDocumentBadType(filename) ==
    /\ up
    /\ ~AlreadyIndexing(filename)
    /\ ~Falsy(filename)
    /\ ~IsString(filename)
    /\ indexingStatus' = OnStartError(indexingStatus, "ERR_INVALID_ARG_TYPE")
    /\ lastStep' = [op |-> "index", req |-> filename, code |-> 500]
    /\ UNCHANGED <<up, procs, dataFiles, metaFiles, clock, latestRun,
                   succeeded, pendingUpload, uploadHistory,
                   chatVars, authVars, chatRequests>>

\* POST /index that passes validation: the status is replaced and the
\* indexer is spawned.
IndexDocumentStart(filename, outcome) ==
    /\ up
    /\ ~AlreadyIndexing(filename)
    /\ IsString(filename)
    /\ filename.name \in dataFiles
    /\ clock < MaxRuns
    /\ clock' = clock + 1
    /\ \/ /\ outcome = "started"
          /\ indexingStatus' = FreshStatus(filename.name)
          /\ procs' = procs \cup {[id |-> clock + 1, file |-> filename.name,
                                   wrote |-> FALSE, stale |-> FALSE]}
          /\ lastStep' = [op |-> "index", req |-> filename, code |-> 202]
          /\ latestRun' = [state |-> "running", file |-> filename.name]
          /\ up' = up
       \/ /\ outcome = "throws"
          /\ indexingStatus' =
                 OnStartError(FreshStatus(filename.name), "spawn failed")
          /\ lastStep' = [op |-> "index", req |-> filename, code |-> 500]
          /\ UNCHANGED <<procs, latestRun, up>>
       \/ /\ outcome = "errorEvent"
          /\ indexingStatus' = FreshStatus(filename.name)
          /\ lastStep' = [op |-> "index", req |-> filename, code |-> 202]
          /\ latestRun' = [state |-> "spawnError", file |-> filename.name]
          /\ up' = FALSE
          /\ procs' = procs
    /\ UNCHANGED <<dataFiles, metaFiles, succeeded, pendingUpload, uploadHistory,
                   chatVars, authVars, chatRequests>>

\* A chunk of the indexer's standard output arrives.
Stdout(p, data) ==
    /\ up
    /\ p \in procs
    /\ indexingStatus' = StdoutOnData(indexingStatus, data)
    /\ lastStep' = [op |-> "stdout", id |-> p.id]
    /\ UNCHANGED <<up, procs, dataFiles, metaFiles, clock, latestRun,
                   succeeded, pendingUpload, uploadHistory,
                   chatVars, authVars, chatRequests>>

\* A chunk of the indexer's standard error arrives.
Stderr(p, data) ==
    /\ up
    /\ p \in procs
    /\ indexingStatus' = StderrOnData(indexingStatus, data)
    /\ lastStep' = [op |-> "stderr", id |-> p.id]
    /\ UNCHANGED <<up, procs, dataFiles, metaFiles, clock, latestRun,
                   succeeded, pendingUpload, uploadHistory,
                   chatVars, authVars, chatRequests>>

\* The indexer script writes `<base>_metadata.json` into the vector store.
IndexerWritesMetadata(p) ==
    /\ p \in procs
    /\ ~p.wrote
    /\ metaFiles' = metaFiles \cup {MetadataOf(p.file)}
    /\ procs' = (procs \ {p}) \cup {[p EXCEPT !.wrote = TRUE]}
    /\ lastStep' = [op |-> "metadata", id |-> p.id]
    /\ staleMeta' = IF p.stale THEN staleMeta \cup {MetadataOf(p.file)}
                    ELSE staleMeta \ {MetadataOf(p.file)}
    /\ UNCHANGED <<up, indexingStatus, dataFiles, clock, latestRun,
                   succeeded, pendingUpload, storedUpload, uploadedDocs,
                   chatVars, authVars, chatRequests>>

\* The indexer exits and its streams are closed.
Close(p, code) ==
    /\ up
    /\ p \in procs
    /\ indexingStatus' = OnClose(indexingStatus, p.file, code)
    /\ procs' = procs \ {p}
    /\ lastStep' = [op |-> "close", id |-> p.id, file |-> p.file, code |-> code]
    /\ latestRun' = IF p.id = clock
                    THEN [state |-> "closed", file |-> p.file, code |-> code]
                    ELSE latestRun
    /\ succeeded' = IF code = 0 THEN succeeded \cup {p.file} ELSE succeeded
    /\ pendingUpload' = IF p.stale THEN pendingUpload
                        ELSE pendingUpload \ {p.file}
    /\ UNCHANGED <<up, dataFiles, metaFiles, clock, uploadHistory, chatVars, authVars, chatRequests>>

\* GET /status and GET /indexing-status: a copy of the status is returned.
GetStatus(route) ==
    /\ up
    /\ lastStep' = [op |-> route, code |-> 200]
    /\ UNCHANGED <<up, indexingStatus, procs, dataFiles, metaFiles, clock,
                   latestRun, succeeded, pendingUpload, uploadHistory,
                   chatVars, authVars, chatRequests>>

QueryTexts == {Null, Str(<<W("Who built the Great Pyramid?")>>)}

\* Mutant of QueryRag: the query is refused while indexing is in progress
\* or when the status records no completed run.
QueryRagChecksStatus(queryText, modelOk) ==
    /\ up
    /\ lastStep' =
          IF Falsy(queryText)
          THEN [op |-> "query", hasText |-> FALSE, forwarded |-> FALSE,
                code |-> 400]
          ELSE IF indexingStatus.isIndexing
          THEN [op |-> "query", hasText |-> TRUE, forwarded |-> FALSE,
                code |-> 409]
          ELSE IF Falsy(indexingStatus.lastIndexed)
          THEN [op |-> "query", hasText |-> TRUE, forwarded |-> FALSE,
                code |-> 400]
          ELSE [op |-> "query", hasText |-> TRUE, forwarded |-> TRUE,
                code |-> IF modelOk THEN 200 ELSE 500]
    /\ UNCHANGED <<up, indexingStatus, procs, dataFiles, metaFiles, clock,
                   latestRun, succeeded, pendingUpload, uploadHistory,
                   chatVars, authVars, chatRequests>>

\* POST /query without a conversationId, from the request to its response:
\* a request without text is answered 400; any other is forwarded to the
\* model server and answered 200, or 500 when that call fails. The handler
\* neither reads nor writes indexingStatus.
QueryRag(queryText, modelOk) ==
    /\ up
    /\ lastStep' =
          IF Falsy(queryText)
          THEN [op |-> "query", hasText |-> FALSE, forwarded |-> FALSE,
                code |-> 400]
          ELSE [op |-> "query", hasText |-> TRUE, forwarded |-> TRUE,
                code |-> IF modelOk THEN 200 ELSE 500]
    /\ UNCHANGED <<up, indexingStatus, procs, dataFiles, metaFiles, clock,
                   latestRun, succeeded, pendingUpload, uploadHistory,
                   chatVars, authVars, chatRequests>>

\* GET /documents.
GetDocuments ==
    /\ up
    /\ lastStep' = [op |-> "documents", code |-> 200]
    /\ UNCHANGED <<up, indexingStatus, procs, dataFiles, metaFiles, clock,
                   latestRun, succeeded, pendingUpload, uploadHistory,
                   chatVars, authVars, chatRequests>>

\* A server whose data directory and vector store hold any of the listed
\* files and of their metadata files.
ListingInit ==
    /\ up = TRUE
    /\ indexingStatus = InitialStatus
    /\ procs = {}
    /\ dataFiles \in SUBSET ListedFiles
    /\ metaFiles \in SUBSET {BaseName(f) : f \in PdfNames}
    /\ clock = 0
    /\ lastStep = [op |-> "start"]
    /\ latestRun = NoRun
    /\ succeeded = {}
    /\ pendingUpload = {}
    /\ staleMeta = {}
    /\ storedUpload = NoUpload
    /\ uploadedDocs = {}
    /\ messages = <<>>
    /\ conversations = {}
    /\ queries = <<>>
    /\ now = 0
    /\ users = {}
    /\ authRequests = <<>>
    /\ mailbox = {}
    /\ issued = {}
    /\ verifications = {}
    /\ chatRequests = <<>>

ListingSpec == ListingInit /\ [][GetDocuments]_vars

\* The requests and process events of the server, for clients that upload
\* the documents `uploads`.
IndexNextOf(uploads) ==
    \/ \E o \in uploads, hasFile \in BOOLEAN, unlinkOk \in BOOLEAN :
          UploadPdf(o, hasFile, unlinkOk)
    \/ \E fn \in FilenameInputs : IndexDocumentRejected(fn)
    \/ \E fn \in FilenameInputs : IndexDocumentBadType(fn)
    \/ \E fn \in FilenameInputs, o \in SpawnOutcomes : IndexDocumentStart(fn, o)
    \/ \E p \in procs, d \in StdoutChunks : Stdout(p, d)
    \/ \E p \in procs, d \in StderrChunks : Stderr(p, d)
    \/ \E p \in procs : IndexerWritesMetadata(p)
    \/ \E p \in procs, c \in ExitCodes : Close(p, c)
    \/ \E r \in {"status", "indexing-status"} : GetStatus(r)
    \/ \E q \in QueryTexts, ok \in BOOLEAN : QueryRag(q, ok)
    \/ GetDocuments

\* The server process is started again: the module state is initialised
\* anew, the files stay. An indexer left running has lost its listeners and
\* may or may not still write its metadata file; a request that was being
\* handled gets no response.
Restart ==
    /\ up' = TRUE
    /\ indexingStatus' = InitialStatus
    /\ procs' = {}
    /\ \E done \in SUBSET {p \in procs : ~p.wrote} :
          /\ metaFiles' = metaFiles \cup {MetadataOf(p.file) : p \in done}
          /\ staleMeta' =
                (staleMeta \ {MetadataOf(p.file) : p \in {d \in done : ~d.stale}})
                   \cup {MetadataOf(p.file) : p \in {d \in done : d.stale}}
    /\ latestRun' = NoRun
    /\ lastStep' = [op |-> "restart"]
    /\ queries' = [q \in DOMAIN queries |->
                      IF queries[q].pc = "done" THEN queries[q]
                      ELSE [queries[q] EXCEPT !.pc = "lost"]]
    /\ authRequests' = [r \in DOMAIN authRequests |->
                           IF authRequests[r].pc = "done" THEN authRequests[r]
                           ELSE [authRequests[r] EXCEPT !.pc = "lost"]]
    /\ chatRequests' = [r \in DOMAIN chatRequests |->
                           IF chatRequests[r].pc = "done" THEN chatRequests[r]
                           ELSE [chatRequests[r] EXCEPT !.pc = "lost"]]
    /\ UNCHANGED <<dataFiles, clock, succeeded, pendingUpload, storedUpload,
                   uploadedDocs, messages, conversations, now, users,
                   mailbox, issued, verifications>>

\* One document is uploaded, possibly many times.
IndexNext == IndexNextOf({"pyramids.pdf"})

\* Several documents are uploaded.
UploadsNext == IndexNextOf(OriginalNames)

IndexSpec == IndexInit /\ [][IndexNext]_vars

\* The indexer process eventually exits, and Node then delivers 'close'.
IndexFairSpec ==
    IndexSpec /\ WF_vars(\E p \in procs, c \in ExitCodes : Close(p, c))

\* Sessions of the server, one after the other, over the same directories.
RestartSpec == IndexInit /\ [][IndexNext \/ Restart]_vars

\* Clients upload several documents.
UploadsSpec == IndexInit /\ [][UploadsNext]_vars

(* ------------------------- the query request -------------------------- *)

\* req.query.format and req.body.format ("none": absent).
Formats == { [query |-> "none", body |-> "none"],
             [query |-> "text", body |-> "none"],
             [query |-> "text", body |-> "json"] }

\* isJsonFormat || !req.query.format
AnswersJson(format) ==
    (format.query = "json" \/ format.body = "json") \/ format.query = "none"

\* A query request being handled; pc is the await it is suspended at.
\* calls counts its POSTs to the model server, window holds the positions
\* of the messages its history was read from, stamp the Date.now of the
\* message it is creating.
NewQuery(queryText, conv, format) ==
    [text |-> queryText, conv |-> conv, format |-> format, pc |-> "new",
     calls |-> 0, request |-> Undefined, historyRead |-> "none",
     window |-> <<>>, reply |-> Undefined, parsed |-> Undefined,
     stamp |-> 0, bearer |-> Undefined]

QuestionRequired ==
    [code |-> 400, type |-> "json",
     body |-> [success |-> FALSE, message |-> "Question is required"]]

\* Mutant of ModelServerError: a failed call is answered with the apology.
ModelServerFallback ==
    [code |-> 200, type |-> "json",
     body |-> [answer |-> ApologyText, sources |-> List(<<>>),
               enhanced_query |-> Null, original_query |-> Null]]

ModelServerError ==
    [code |-> 500, type |-> "json",
     body |-> [success |-> FALSE,
               message |-> "Error generating response from model server"]]

\* The 200 response: JSON with the four fields, or the answer as plain text.
AnswerResponse(format, parsed) ==
    IF AnswersJson(format)
    THEN [code |-> 200, type |-> "json", body |-> Json(parsed)]
    ELSE [code |-> 200, type |-> "text", body |-> ToText(parsed.answer)]

\* What is left of a request once it is answered: what was asked, and how
\* often the model server was called for it.
Finished(record) ==
    [NewQuery(record.text, record.conv, [query |-> "none", body |-> "none"])
        EXCEPT !.pc = "done", !.calls = record.calls]

\* The response sent for a request, with the request's question and the
\* model server's reply to it.
Sent(q, record, reply, response) ==
    [op |-> "query", id |-> q, hasText |-> ~Falsy(record.text),
     forwarded |-> record.calls > 0, code |-> response.code,
     type |-> response.type, body |-> response.body,
     text |-> record.text, reply |-> reply]

Responded(q, response) ==
    /\ queries' = [queries EXCEPT ![q] = Finished(@)]
    /\ lastStep' = Sent(q, queries[q], queries[q].reply, response)

Suspended(q, record) ==
    /\ queries' = [queries EXCEPT ![q] = record]
    /\ lastStep' = [op |-> "query-await", id |-> q]

indexVars == <<up, indexingStatus, procs, dataFiles, metaFiles, clock,
               latestRun, succeeded, pendingUpload, uploadHistory>>

\* POST /query arrives: 400 without a question; with a conversationId the
\* history is asked for; without one the model server is called at once.
\* The route has no middleware and the handler does not read the
\* Authorization header the request came with.
QueryReceiveWith(header, queryText, conv, format) ==
    /\ up
    /\ Len(queries) < MaxQueries
    /\ LET q == Len(queries) + 1
           new == [NewQuery(queryText, conv, format) EXCEPT !.bearer = header]
       IN IF Falsy(queryText)
          THEN /\ queries' = Append(queries, Finished(new))
               /\ lastStep' = Sent(q, new, Undefined, QuestionRequired)
          ELSE IF ~Falsy(conv)
          THEN /\ queries' = Append(queries, [new EXCEPT !.pc = "history"])
               /\ lastStep' = [op |-> "query-await", id |-> q]
          ELSE /\ queries' = Append(queries,
                     [new EXCEPT !.pc = "model", !.calls = 1,
                                 !.request = ModelRequest(queryText, <<>>)])
               /\ lastStep' = [op |-> "query-await", id |-> q]
    /\ UNCHANGED <<indexVars, authVars, chatRequests, messages, conversations, now>>

\* POST /query without an Authorization header.
QueryReceive(queryText, conv, format) ==
    QueryReceiveWith(Undefined, queryText, conv, format)

\* A handler that stored the question before it called the model server.
QueryHistoryStoresQuestion(q, findOk, tie) ==
    /\ up
    /\ queries[q].pc = "history"
    /\ LET window == IF findOk THEN FindWindow(queries[q].conv, tie)
                     ELSE <<>>
       IN Suspended(q, [queries[q] EXCEPT
                          !.pc = "model",
                          !.historyRead = IF findOk THEN "ok" ELSE "failed",
                          !.window = window,
                          !.calls = @ + 1,
                          !.request = ModelRequest(queries[q].text,
                                                   ChatHistoryOf(window))])
    /\ messages' = Append(messages,
          Message(queries[q].conv, "user", queries[q].text, now, Null, q))
    /\ UNCHANGED <<indexVars, authVars, chatRequests, conversations, now>>

\* Message.find(...) settles, with the messages or with an error; either
\* way the model server is called next.
QueryHistory(q, findOk, tie) ==
    /\ up
    /\ queries[q].pc = "history"
    /\ LET window == IF findOk THEN FindWindow(queries[q].conv, tie)
                     ELSE <<>>
       IN Suspended(q, [queries[q] EXCEPT
                          !.pc = "model",
                          !.historyRead = IF findOk THEN "ok" ELSE "failed",
                          !.window = window,
                          !.calls = @ + 1,
                          !.request = ModelRequest(queries[q].text,
                                                   ChatHistoryOf(window))])
    /\ UNCHANGED <<indexVars, authVars, chatRequests, messages, conversations, now>>

\* axios.post settles: a failure is answered 500; a reply is parsed and,
\* without a conversationId, answered 200; with one the conversation is
\* looked up first.
QueryModelReply(q, reply) ==
    /\ up
    /\ queries[q].pc = "model"
    /\ IF reply = CallFailed
       THEN /\ queries' = [queries EXCEPT ![q] = Finished(@)]
            /\ lastStep' = Sent(q, queries[q], CallFailed, ModelServerError)
       ELSE LET parsed == Parsed(reply)
            IN IF ~Falsy(queries[q].conv)
               THEN Suspended(q, [queries[q] EXCEPT
                                    !.pc = "conversation",
                                    !.request = Undefined,
                                    !.window = <<>>,
                                    !.reply = reply,
                                    !.parsed = parsed])
               ELSE /\ queries' = [queries EXCEPT ![q] = Finished(@)]
                    /\ lastStep' =
                          Sent(q, queries[q], reply,
                               AnswerResponse(queries[q].format, parsed))
    /\ UNCHANGED <<indexVars, authVars, chatRequests, messages, conversations, now>>

\* Conversation.findById settles: when it throws or finds nothing the
\* answer is sent without saving; otherwise the user message is created,
\* its timestamp being the time of this step.
QueryFindConversation(q, findOk, dt) ==
    /\ up
    /\ queries[q].pc = "conversation"
    /\ now' = now + dt
    /\ IF findOk /\ \E c \in conversations : c.id = queries[q].conv
       THEN Suspended(q, [queries[q] EXCEPT !.pc = "saveUser",
                                            !.stamp = now'])
       ELSE Responded(q, AnswerResponse(queries[q].format,
                                        queries[q].parsed))
    /\ UNCHANGED <<indexVars, authVars, chatRequests, messages, conversations>>

\* A handler whose failed save of the question fails the request.
QuerySaveUserRethrows(q, saveOk, dt) ==
    /\ up
    /\ queries[q].pc = "saveUser"
    /\ now' = now + dt
    /\ IF saveOk /\ ValidMessage(queries[q].conv, "user", queries[q].text)
       THEN /\ messages' = Append(messages,
                  Message(queries[q].conv, "user", queries[q].text,
                          queries[q].stamp, Null, q))
            /\ Suspended(q, [queries[q] EXCEPT !.pc = "saveAssistant",
                                               !.stamp = now'])
       ELSE /\ messages' = messages
            /\ Responded(q, ModelServerError)
    /\ UNCHANGED <<indexVars, authVars, chatRequests, conversations>>

\* Message.create of the question settles; when it succeeded the assistant
\* message is created; when it failed the answer is sent.
QuerySaveUser(q, saveOk, dt) ==
    /\ up
    /\ queries[q].pc = "saveUser"
    /\ now' = now + dt
    /\ IF saveOk /\ ValidMessage(queries[q].conv, "user", queries[q].text)
       THEN /\ messages' = Append(messages,
                  Message(queries[q].conv, "user", queries[q].text,
                          queries[q].stamp, Null, q))
            /\ Suspended(q, [queries[q] EXCEPT !.pc = "saveAssistant",
                                               !.stamp = now'])
       ELSE /\ messages' = messages
            /\ Responded(q, AnswerResponse(queries[q].format,
                                           queries[q].parsed))
    /\ UNCHANGED <<indexVars, authVars, chatRequests, conversations>>

\* Message.create of the answer settles; when it succeeded the conversation
\* is saved; when it failed the answer is sent.
QuerySaveAssistant(q, saveOk) ==
    /\ up
    /\ queries[q].pc = "saveAssistant"
    /\ IF saveOk /\ ValidMessage(queries[q].conv, "assistant",
                                 queries[q].parsed.answer)
       THEN /\ messages' = Append(messages,
                  Message(queries[q].conv, "assistant",
                          queries[q].parsed.answer, queries[q].stamp,
                          [sources |-> queries[q].parsed.sources,
                           enhanced_query |-> queries[q].parsed.enhanced_query,
                           original_query |-> queries[q].parsed.original_query],
                          q))
            /\ Suspended(q, [queries[q] EXCEPT !.pc = "saveConversation"])
       ELSE /\ messages' = messages
            /\ Responded(q, AnswerResponse(queries[q].format,
                                           queries[q].parsed))
    /\ UNCHANGED <<indexVars, authVars, chatRequests, conversations, now>>

\* conversation.save() settles (the pre-save hook sets updatedAt); the
\* answer is sent whether it succeeded or not.
QuerySaveConversation(q, saveOk, dt) ==
    /\ up
    /\ queries[q].pc = "saveConversation"
    /\ now' = now + dt
    /\ conversations' =
          IF saveOk
          THEN {IF c.id = queries[q].conv THEN [c EXCEPT !.updatedAt = now']
                ELSE c : c \in conversations}
          ELSE conversations
    /\ Responded(q, AnswerResponse(queries[q].format, queries[q].parsed))
    /\ UNCHANGED <<indexVars, authVars, chatRequests, messages>>

\* title: { default: 'New Conversation' }
DefaultTitle == [title |-> "New Conversation"]

\* A conversation of the store.
Conversation(id, userId, updatedAt) ==
    [id |-> id, userId |-> userId, title |-> DefaultTitle,
     isActive |-> TRUE, updatedAt |-> updatedAt]

\* Numbers of messages conversation c1 holds when the server starts.
StoredCounts == {0, 3, 11}

\* n messages written to c1 through the chat API, question and answer in
\* turn, each pair within one millisecond.
StoredMessages(n) ==
    [i \in 1..n |->
        Message(Conv("c1"), IF i % 2 = 1 THEN "user" ELSE "assistant",
                IF i % 2 = 1 THEN Str(<<W("Who was Khufu?")>>) ELSE Answer1,
                (i + 1) \div 2, Null, 0)]

\* The server starts with conversation c1 in the store.
QueryInit ==
    /\ up = TRUE
    /\ indexingStatus = InitialStatus
    /\ procs = {}
    /\ dataFiles = {UploadName}
    /\ metaFiles = {MetadataOf(UploadName)}
    /\ clock = 0
    /\ lastStep = [op |-> "start"]
    /\ latestRun = NoRun
    /\ succeeded = {}
    /\ pendingUpload = {}
    /\ staleMeta = {}
    /\ storedUpload = NoUpload
    /\ uploadedDocs = {}
    /\ \E n \in StoredCounts :
          /\ messages = StoredMessages(n)
          /\ now = (n + 1) \div 2
    /\ conversations = {Conversation(Conv("c1"), 1, 0)}
    /\ queries = <<>>
    /\ chatRequests = <<>>
    /\ users = {}
    /\ authRequests = <<>>
    /\ mailbox = {}
    /\ issued = {}
    /\ verifications = {}

\* Query requests without a conversationId, against a model server of
\* which nothing is assumed.
AnswerNext ==
    \/ \E t \in QueryTexts, f \in Formats : QueryReceive(t, Undefined, f)
    \/ \E q \in DOMAIN queries, reply \in AnyReplies \cup {CallFailed} :
          QueryModelReply(q, reply)

\* Query requests without a conversationId, against the model server the
\* README documents.
ContractNext ==
    \/ \E t \in QueryTexts, f \in Formats : QueryReceive(t, Undefined, f)
    \/ \E q \in DOMAIN queries :
          /\ queries[q].pc = "model"
          /\ \E reply \in ContractReplies(queries[q].request) \cup {CallFailed} :
                QueryModelReply(q, reply)

\* Query requests with and without a conversationId, each step of a request
\* interleaved with the steps of the others.
HistoryNextOf(headers, convs, answers) ==
    \/ \E h \in headers, t \in QueryTexts, c \in convs :
          QueryReceiveWith(h, t, c, [query |-> "none", body |-> "none"])
    \/ \E q \in DOMAIN queries, ok \in BOOLEAN, tie \in TieBreaks :
          QueryHistory(q, ok, tie)
    \/ \E q \in DOMAIN queries :
          /\ queries[q].pc = "model"
          /\ \E reply \in {Raw(Response(a, List(<<Source1>>), Enhanced1,
                                        queries[q].request.query)) :
                               a \in answers} \cup {CallFailed} :
                QueryModelReply(q, reply)
    \/ \E q \in DOMAIN queries, ok \in BOOLEAN, dt \in {0, 1} :
          QueryFindConversation(q, ok, dt)
    \/ \E q \in DOMAIN queries, ok \in BOOLEAN, dt \in {0, 1} :
          QuerySaveUser(q, ok, dt)
    \/ \E q \in DOMAIN queries, ok \in BOOLEAN : QuerySaveAssistant(q, ok)
    \/ \E q \in DOMAIN queries, ok \in BOOLEAN, dt \in {0, 1} :
          QuerySaveConversation(q, ok, dt)

HistoryNext == HistoryNextOf({Undefined}, ConvInputs, {Answer1})

\* Queries on conversation c1, the model server answering with a text or
\* with the empty string.
PairNext == HistoryNextOf({Undefined}, {Conv("c1")}, {Answer1, Str(<<>>)})

AnswerSpec == QueryInit /\ [][AnswerNext]_vars

ContractSpec == QueryInit /\ [][ContractNext]_vars

HistorySpec == QueryInit /\ [][HistoryNext]_vars

PairSpec == QueryInit /\ [][PairNext]_vars

(* --------------------- signup, verify and login ----------------------- *)

\* Signup, verify and login requests handled in one behaviour.
MaxAuthRequests == 3

Emails == {"omar@example.com", "sara@example.com"}

\* Passwords as their characters: one that meets the documented requirements
\* and one that is too short and has no digit.
Passwords ==
    {<<"p", "h", "a", "r", "a", "o", "h", "1", "2", "3">>,
     <<"n", "i", "l", "e">>}

\* README, Authentication Details: "Password Requirements: Minimum 8
\* characters with numbers and letters".
MinPasswordLength == 8
Letters ==
    {"a", "b", "c", "d", "e", "f", "g", "h", "i", "j", "k", "l", "m",
     "n", "o", "p", "q", "r", "s", "t", "u", "v", "w", "x", "y", "z"}
Digits == {"0", "1", "2", "3", "4", "5", "6", "7", "8", "9"}

MeetsPasswordRequirements(password) ==
    /\ Len(password) >= MinPasswordLength
    /\ \E i \in 1..Len(password) : password[i] \in Letters
    /\ \E i \in 1..Len(password) : password[i] \in Digits

\* jwt.sign({id}, JWT_SECRET, ...): the token generateVerificationToken makes
\* and the token login makes; and a token not signed with the secret.
VerificationToken(id) == [kind |-> "verification", id |-> id]
AccessToken(id) == [kind |-> "access", id |-> id]
Forged == [kind |-> "forged", id |-> 0]

\* bcrypt.hash and bcrypt.compare
Hash(password) == [hash |-> password]
Compare(password, hashed) == hashed = Hash(password)

NoUser == [id |-> 0]

\* new User({email, password}), with the defaults of userSchema and the id
\* of the document.
NewUser(id, email, password) ==
    [id |-> id, email |-> email, password |-> password, verified |-> FALSE,
     verificationToken |-> Null]

\* A request being handled; pc is the await it is suspended at, user the
\* document it holds.
AuthRequest(kind, pc, email, password, token) ==
    [kind |-> kind, pc |-> pc, email |-> email, password |-> password,
     token |-> token, user |-> NoUser]

\* What is left of a request once it is answered.
AuthDone(request) ==
    AuthRequest(request.kind, "done", "", <<>>, Forged)

AuthResponded(r, op, code, message) ==
    /\ authRequests' = [authRequests EXCEPT ![r] = AuthDone(@)]
    /\ lastStep' = [op |-> op, id |-> r, code |-> code, message |-> message]

AuthSuspended(r, record) ==
    /\ authRequests' = [authRequests EXCEPT ![r] = record]
    /\ lastStep' = [op |-> "auth-await", id |-> r]

AuthReceived(record) ==
    /\ up
    /\ Len(authRequests) < MaxAuthRequests
    /\ authRequests' = Append(authRequests, record)
    /\ lastStep' = [op |-> "auth-await", id |-> Len(authRequests) + 1]

FindByEmail(email) == {u \in users : u.email = email}
FindById(id) == {u \in users : u.id = id}

\* POST /signup arrives: User.findOne is issued.
SignupReceive(email, password) ==
    /\ AuthReceived(AuthRequest("signup", "findOne", email, password, Forged))
    /\ UNCHANGED <<indexVars, chatVars, chatRequests, users, mailbox, issued, verifications>>

\* User.findOne settles: 409 when the email has an account; otherwise the
\* user document is made, its verification token generated, save() issued.
SignupFind(r, findOk) ==
    /\ up
    /\ authRequests[r].kind = "signup" /\ authRequests[r].pc = "findOne"
    /\ IF ~findOk
       THEN AuthResponded(r, "signup", 500, "Signup failed.")
       ELSE IF FindByEmail(authRequests[r].email) # {}
       THEN AuthResponded(r, "signup", 409, "Email already in use.")
       ELSE AuthSuspended(r,
              [authRequests[r] EXCEPT
                 !.pc = "save",
                 !.token = VerificationToken(r),
                 !.user = [NewUser(r, authRequests[r].email,
                                   authRequests[r].password)
                             EXCEPT !.verificationToken = VerificationToken(r)]])
    /\ UNCHANGED <<indexVars, chatVars, chatRequests, users, mailbox, issued, verifications>>

\* Mutant of DuplicateKey: the collection has no unique index on email.
DuplicateKeyNever(email) == FALSE

\* email: { unique: true }: the index refuses a second document with the
\* same email.
DuplicateKey(email) == FindByEmail(email) # {}

\* user.save() settles: the password is hashed by the pre-save hook and the
\* document inserted, unless the store fails or the unique index on email
\* refuses it; then the verification email is sent.
SignupSave(r, saveOk) ==
    /\ up
    /\ authRequests[r].kind = "signup" /\ authRequests[r].pc = "save"
    /\ IF saveOk /\ ~DuplicateKey(authRequests[r].email)
       THEN /\ users' = users \cup
                  {[authRequests[r].user EXCEPT
                      !.password = Hash(authRequests[r].password)]}
            /\ AuthSuspended(r, [authRequests[r] EXCEPT !.pc = "email"])
       ELSE /\ users' = users
            /\ AuthResponded(r, "signup", 500, "Signup failed.")
    /\ UNCHANGED <<indexVars, chatVars, chatRequests, mailbox, issued, verifications>>

\* sendVerificationEmail settles: 201 when the mail went out, else 500.
SignupEmail(r, sendOk) ==
    /\ up
    /\ authRequests[r].kind = "signup" /\ authRequests[r].pc = "email"
    /\ IF sendOk
       THEN /\ mailbox' = mailbox \cup {authRequests[r].token}
            /\ AuthResponded(r, "signup", 201,
                             "Signup successful. Please verify your email.")
       ELSE /\ mailbox' = mailbox
            /\ AuthResponded(r, "signup", 500, "Signup failed.")
    /\ UNCHANGED <<indexVars, chatVars, chatRequests, users, issued, verifications>>

\* Mutant of TokenRejected: the expiry of the token is not checked.
TokenRejectedIfForged(token, expired) == token = Forged

\* jwt.verify(token, JWT_SECRET) throws: the token is not signed with the
\* secret, or it has expired.
TokenRejected(token, expired) == token = Forged \/ expired

\* GET /verify/:token arrives: jwt.verify throws for a token that is not
\* signed with the secret or has expired (400); otherwise User.findById is
\* issued.
VerifyReceive(token, expired) ==
    /\ up
    /\ Len(authRequests) < MaxAuthRequests
    /\ IF TokenRejected(token, expired)
       THEN /\ authRequests' = Append(authRequests,
                  AuthDone(AuthRequest("verify", "new", "", <<>>, token)))
            /\ lastStep' = [op |-> "verify", id |-> Len(authRequests) + 1,
                            code |-> 400, message |-> "Verification failed.",
                            token |-> token, expired |-> expired]
       ELSE /\ authRequests' = Append(authRequests,
                  AuthRequest("verify", "findById", "", <<>>, token))
            /\ lastStep' = [op |-> "auth-await", id |-> Len(authRequests) + 1,
                            token |-> token, expired |-> expired]
    /\ UNCHANGED <<indexVars, chatVars, chatRequests, users, mailbox, issued, verifications>>

\* User.findById settles: 400 without a user, 200 for a verified user;
\* otherwise the document is marked verified and save() issued.
VerifyFind(r, findOk) ==
    /\ up
    /\ authRequests[r].kind = "verify" /\ authRequests[r].pc = "findById"
    /\ IF ~findOk
       THEN AuthResponded(r, "verify", 400, "Verification failed.")
       ELSE IF FindById(authRequests[r].token.id) = {}
       THEN AuthResponded(r, "verify", 400, "Invalid token.")
       ELSE LET user == CHOOSE u \in FindById(authRequests[r].token.id) : TRUE
            IN IF user.verified
               THEN AuthResponded(r, "verify", 200, "Already verified.")
               ELSE AuthSuspended(r,
                      [authRequests[r] EXCEPT
                         !.pc = "save",
                         !.user = [user EXCEPT !.verified = TRUE,
                                               !.verificationToken = Undefined]])
    /\ UNCHANGED <<indexVars, chatVars, chatRequests, users, mailbox, issued, verifications>>

\* user.save() of verify settles: the modified fields are written (200), or
\* the store fails (400).
VerifySave(r, saveOk) ==
    /\ up
    /\ authRequests[r].kind = "verify" /\ authRequests[r].pc = "save"
    /\ IF saveOk
       THEN /\ users' = {IF u.id = authRequests[r].user.id
                         THEN [u EXCEPT !.verified = TRUE,
                                        !.verificationToken = Undefined]
                         ELSE u : u \in users}
            /\ verifications' = verifications \cup {authRequests[r].user.id}
            /\ AuthResponded(r, "verify", 200,
                             "Email verified! You can now log in.")
       ELSE /\ UNCHANGED <<users, verifications>>
            /\ AuthResponded(r, "verify", 400, "Verification failed.")
    /\ UNCHANGED <<indexVars, chatVars, chatRequests, mailbox, issued>>

\* Mutant of NotVerified: login does not look at the verified flag.
NotVerifiedIgnored(user) == FALSE

\* !user.verified
NotVerified(user) == ~user.verified

\* POST /login arrives: User.findOne is issued.
LoginReceive(email, password) ==
    /\ AuthReceived(AuthRequest("login", "findOne", email, password, Forged))
    /\ UNCHANGED <<indexVars, chatVars, chatRequests, users, mailbox, issued, verifications>>

\* User.findOne settles: 401 without a user or for an unverified one;
\* otherwise bcrypt.compare is issued.
LoginFind(r, findOk) ==
    /\ up
    /\ authRequests[r].kind = "login" /\ authRequests[r].pc = "findOne"
    /\ IF ~findOk
       THEN AuthResponded(r, "login", 500, "Login failed.")
       ELSE IF FindByEmail(authRequests[r].email) = {}
       THEN AuthResponded(r, "login", 401, "Invalid credentials.")
       ELSE LET user == CHOOSE u \in FindByEmail(authRequests[r].email) : TRUE
            IN IF NotVerified(user)
               THEN AuthResponded(r, "login", 401, "Please verify your email.")
               ELSE AuthSuspended(r, [authRequests[r] EXCEPT
                                        !.pc = "compare", !.user = user])
    /\ UNCHANGED <<indexVars, chatVars, chatRequests, users, mailbox, issued, verifications>>

\* bcrypt.compare settles: 401 on a mismatch; otherwise an access token for
\* the user is signed and returned.
LoginCompare(r, compareOk) ==
    /\ up
    /\ authRequests[r].kind = "login" /\ authRequests[r].pc = "compare"
    /\ IF ~compareOk
       THEN /\ issued' = issued
            /\ AuthResponded(r, "login", 500, "Login failed.")
       ELSE IF ~Compare(authRequests[r].password, authRequests[r].user.password)
       THEN /\ issued' = issued
            /\ AuthResponded(r, "login", 401, "Invalid credentials.")
       ELSE /\ issued' = issued \cup {AccessToken(authRequests[r].user.id)}
            /\ authRequests' = [authRequests EXCEPT ![r] = AuthDone(@)]
            /\ lastStep' = [op |-> "login", id |-> r, code |-> 200,
                            message |-> "",
                            token |-> AccessToken(authRequests[r].user.id),
                            userId |-> authRequests[r].user.id]
    /\ UNCHANGED <<indexVars, chatVars, chatRequests, users, mailbox, verifications>>

\* The requests of the auth router and the steps of their handlers. A
\* client presents to verify a token it received by mail or from login, or
\* one it made up.
AuthNext ==
    \/ \E e \in Emails, p \in Passwords : SignupReceive(e, p)
    \/ \E r \in DOMAIN authRequests, ok \in BOOLEAN : SignupFind(r, ok)
    \/ \E r \in DOMAIN authRequests, ok \in BOOLEAN : SignupSave(r, ok)
    \/ \E r \in DOMAIN authRequests, ok \in BOOLEAN : SignupEmail(r, ok)
    \/ \E t \in mailbox \cup issued \cup {Forged}, expired \in BOOLEAN :
          VerifyReceive(t, expired)
    \/ \E r \in DOMAIN authRequests, ok \in BOOLEAN : VerifyFind(r, ok)
    \/ \E r \in DOMAIN authRequests, ok \in BOOLEAN : VerifySave(r, ok)
    \/ \E e \in Emails, p \in Passwords : LoginReceive(e, p)
    \/ \E r \in DOMAIN authRequests, ok \in BOOLEAN : LoginFind(r, ok)
    \/ \E r \in DOMAIN authRequests, ok \in BOOLEAN : LoginCompare(r, ok)

\* The server starts with no document and no account.
AuthInit == IndexInit /\ dataFiles = {} /\ metaFiles = {}

AuthSpec == AuthInit /\ [][AuthNext]_vars

(* ------------------------------ chat API ------------------------------ *)

\* Requests to the chat router handled in one behaviour.
MaxChatRequests == 2

ChatKinds ==
    {"create", "list", "get", "add", "update", "delete", "hardDelete"}

\* The routes that name the auth middleware again after router.use(auth).
TwiceGuarded == {"delete", "hardDelete"}

\* The Authorization header: 'Bearer <token>', the token possibly past its
\* expiry, or a header of another scheme; Undefined when absent.
Bearer(token, expired) ==
    [scheme |-> "Bearer", token |-> token, expired |-> expired]
Basic == [scheme |-> "Basic"]

\* !authHeader || !authHeader.startsWith('Bearer ')
NoBearer(header) == header = Undefined \/ header.scheme # "Bearer"

\* Mutant of JwtVerify: the token is decoded without being verified.
JwtDecodeOnly(header) == TRUE

\* jwt.verify(token, JWT_SECRET) returns: the token is signed with the
\* secret and has not expired.
JwtVerify(header) ==
    /\ header.token.kind \in {"verification", "access"}
    /\ ~header.expired

\* Text of a request body, as its characters.
Chars(s) == [chars |-> s]
Role(r) == [role |-> r]

\* substring(0, 30) and the length above which '...' is appended.
TitleLength == 30

\* message.substring(0, 30) + (message.length > 30 ? '...' : '')
ShortTitle(message) ==
    Chars(SubSeq(message.chars, 1, Min(TitleLength, Len(message.chars)))
             \o (IF Len(message.chars) > TitleLength
                 THEN <<".", ".", ".">> ELSE <<>>))

NoBody == [title |-> Undefined, message |-> Undefined,
           role |-> Undefined, content |-> Undefined]

NoConversation == [id |-> Undefined]

\* A request to the chat router being handled; pc is the await it is
\* suspended at, userId the req.userId the middleware set, doc the
\* conversation document the handler holds, stamp the Date.now of the
\* message it is creating.
ChatRequest(kind, header, conv, body) ==
    [kind |-> kind, pc |-> "new", bearer |-> header, conv |-> conv,
     body |-> body, userId |-> 0, doc |-> NoConversation, stamp |-> 0]

\* What is left of a request once it is answered.
ChatDone(request) ==
    [ChatRequest(request.kind, Undefined, Undefined, NoBody)
        EXCEPT !.pc = "done"]

ChatAnswer(r, record, code, body) ==
    [op |-> "chat", kind |-> record.kind, id |-> r, code |-> code,
     bearer |-> record.bearer, userId |-> record.userId,
     conv |-> record.conv, body |-> body]

ChatResponded(r, code, body) ==
    /\ chatRequests' = [chatRequests EXCEPT ![r] = ChatDone(@)]
    /\ lastStep' = ChatAnswer(r, chatRequests[r], code, body)

ChatSuspended(r, record) ==
    /\ chatRequests' = [chatRequests EXCEPT ![r] = record]
    /\ lastStep' = [op |-> "chat-await", id |-> r]

ChatAt(r, kind, pc) ==
    /\ up
    /\ chatRequests[r].kind = kind
    /\ chatRequests[r].pc = pc

\* A request arrives at the chat router and the auth middleware runs up to
\* User.findById: 401 without a Bearer header or when jwt.verify throws.
ChatReceive(kind, header, conv, body) ==
    /\ up
    /\ Len(chatRequests) < MaxChatRequests
    /\ LET record == ChatRequest(kind, header, conv, body)
           r == Len(chatRequests) + 1
       IN IF NoBearer(header) \/ ~JwtVerify(header)
          THEN /\ chatRequests' = Append(chatRequests, ChatDone(record))
               /\ lastStep' = ChatAnswer(r, record, 401, Null)
          ELSE /\ chatRequests' =
                     Append(chatRequests, [record EXCEPT !.pc = "auth"])
               /\ lastStep' = [op |-> "chat-await", id |-> r]
    /\ UNCHANGED <<indexVars, authVars, chatVars>>

\* The handler runs up to its first await: createConversation issues
\* save(), getConversations find(), addMessage answers 400 without role or
\* content, and the others issue findOne().
FirstAwait(kind, body) ==
    CASE kind = "create" -> "save"
      [] kind = "list" -> "find"
      [] kind = "add" -> IF Falsy(body.role) \/ Falsy(body.content)
                         THEN "rejected" ELSE "findOne"
      [] OTHER -> "findOne"

\* new Conversation({userId, title: req.body.title || 'New Conversation'})
\* of request r.
NewConversation(r, userId, title) ==
    [id |-> [created |-> r], userId |-> userId,
     title |-> IF Falsy(title) THEN DefaultTitle ELSE title,
     isActive |-> TRUE, updatedAt |-> 0]

\* User.findById of the middleware settles: 500 when it throws, 401 when
\* there is no such user; otherwise req.userId is set and next() called,
\* which on the twice guarded routes runs the middleware again.
ChatAuth(r, findOk) ==
    /\ up
    /\ chatRequests[r].pc \in {"auth", "authAgain"}
    /\ LET request == chatRequests[r]
           found == FindById(request.bearer.token.id)
           admitted == [request EXCEPT
                          !.userId = (CHOOSE u \in found : TRUE).id]
           next == FirstAwait(request.kind, request.body)
       IN IF ~findOk
          THEN ChatResponded(r, 500, Null)
          ELSE IF found = {}
          THEN ChatResponded(r, 401, Null)
          ELSE IF request.pc = "auth" /\ request.kind \in TwiceGuarded
          THEN ChatSuspended(r, [admitted EXCEPT !.pc = "authAgain"])
          ELSE IF next = "rejected"
          THEN /\ chatRequests' = [chatRequests EXCEPT ![r] = ChatDone(@)]
               /\ lastStep' = ChatAnswer(r, admitted, 400, Null)
          ELSE ChatSuspended(r,
                 [admitted EXCEPT
                    !.pc = next,
                    !.doc = IF request.kind = "create"
                            THEN NewConversation(r, admitted.userId,
                                                 request.body.title)
                            ELSE NoConversation])
    /\ UNCHANGED <<indexVars, authVars, chatVars>>

\* Mutant of FindOwned: the filter has no userId.
FindOwnedByAnyone(id, userId) == {c \in conversations : c.id = id}

\* Conversation.findOne({_id: req.params.id, userId: req.userId})
FindOwned(id, userId) ==
    {c \in conversations : c.id = id /\ c.userId = userId}

\* Mutant of FindActive: the filter has no isActive.
FindActiveOrDeleted(userId) == {c \in conversations : c.userId = userId}

\* Conversation.find({userId: req.userId, isActive: true})
FindActive(userId) ==
    {c \in conversations : c.userId = userId /\ c.isActive}

\* .sort({updatedAt: -1}): the orders the store may return, conversations
\* of equal updatedAt in any order.
SortedByUpdate(found) ==
    {s \in [1..Cardinality(found) -> found] :
        /\ \A i, j \in DOMAIN s : i # j => s[i] # s[j]
        /\ \A i, j \in DOMAIN s : i < j => s[i].updatedAt >= s[j].updatedAt}

Stored(id) == \E c \in conversations : c.id = id

\* conversation.save() of a document that is in the store writes the paths
\* the handler modified, and the pre-save hook sets updatedAt.
Saved(id, title, deleted, time) ==
    {IF c.id = id
     THEN [c EXCEPT !.title = IF Falsy(title) THEN @ ELSE title,
                    !.isActive = IF deleted THEN FALSE ELSE @,
                    !.updatedAt = time]
     ELSE c : c \in conversations}

\* findOne of a handler settles: 500 when it throws, 404 when the caller
\* has no such conversation; otherwise the handler goes on to its next
\* await holding the document.
FoundOwned(r, findOk, next, stamp) ==
    LET found == FindOwned(chatRequests[r].conv, chatRequests[r].userId)
    IN IF ~findOk
       THEN ChatResponded(r, 500, Null)
       ELSE IF found = {}
       THEN ChatResponded(r, 404, Null)
       ELSE ChatSuspended(r, [chatRequests[r] EXCEPT
                                !.pc = next,
                                !.doc = CHOOSE c \in found : TRUE,
                                !.stamp = stamp])

\* createConversation: conversation.save() settles; with an initial message
\* the message is made and its save() issued, else 201.
CreateSave(r, saveOk, dt) ==
    /\ ChatAt(r, "create", "save")
    /\ now' = now + dt
    /\ LET doc == [chatRequests[r].doc EXCEPT !.updatedAt = now']
       IN IF ~saveOk
          THEN /\ conversations' = conversations
               /\ ChatResponded(r, 500, Null)
          ELSE /\ conversations' = conversations \cup {doc}
               /\ IF Falsy(chatRequests[r].body.message)
                  THEN ChatResponded(r, 201, doc)
                  ELSE ChatSuspended(r, [chatRequests[r] EXCEPT
                                           !.pc = "saveMessage",
                                           !.doc = doc,
                                           !.stamp = now'])
    /\ UNCHANGED <<indexVars, authVars, messages, queries>>

\* createConversation: message.save() settles; without a title in the body
\* the title is taken from the message and the conversation saved again.
CreateSaveMessage(r, saveOk) ==
    /\ ChatAt(r, "create", "saveMessage")
    /\ LET request == chatRequests[r]
       IN IF saveOk /\ ValidMessage(request.doc.id, "user",
                                    request.body.message)
          THEN /\ messages' = Append(messages,
                     Message(request.doc.id, "user", request.body.message,
                             request.stamp, Null, 0))
               /\ IF Falsy(request.body.title)
                  THEN ChatSuspended(r,
                         [request EXCEPT
                            !.pc = "saveTitle",
                            !.doc.title = ShortTitle(request.body.message)])
                  ELSE ChatResponded(r, 201, request.doc)
          ELSE /\ messages' = messages
               /\ ChatResponded(r, 500, Null)
    /\ UNCHANGED <<indexVars, authVars, conversations, queries, now>>

\* createConversation: the second conversation.save() settles.
CreateSaveTitle(r, saveOk, dt) ==
    /\ ChatAt(r, "create", "saveTitle")
    /\ now' = now + dt
    /\ LET doc == chatRequests[r].doc
       IN IF saveOk /\ Stored(doc.id)
          THEN /\ conversations' = Saved(doc.id, doc.title, FALSE, now')
               /\ ChatResponded(r, 201, [doc EXCEPT !.updatedAt = now'])
          ELSE /\ conversations' = conversations
               /\ ChatResponded(r, 500, Null)
    /\ UNCHANGED <<indexVars, authVars, messages, queries>>

\* getConversations: find() settles.
ListFind(r, findOk) ==
    /\ ChatAt(r, "list", "find")
    /\ IF findOk
       THEN \E listing \in SortedByUpdate(FindActive(chatRequests[r].userId)) :
               ChatResponded(r, 200, listing)
       ELSE ChatResponded(r, 500, Null)
    /\ UNCHANGED <<indexVars, authVars, chatVars>>

\* getConversation: findOne() settles.
GetFindOne(r, findOk) ==
    /\ ChatAt(r, "get", "findOne")
    /\ FoundOwned(r, findOk, "findMessages", 0)
    /\ UNCHANGED <<indexVars, authVars, chatVars>>

\* getConversation: Message.find({conversationId}).sort({timestamp: 1})
\* settles.
GetFindMessages(r, findOk, tie) ==
    /\ ChatAt(r, "get", "findMessages")
    /\ IF findOk
       THEN ChatResponded(r, 200,
              [conversation |-> chatRequests[r].doc,
               messages |->
                  Reverse(SortDesc({i \in 1..Len(messages) :
                                       messages[i].conversationId
                                          = chatRequests[r].doc.id}, tie))])
       ELSE ChatResponded(r, 500, Null)
    /\ UNCHANGED <<indexVars, authVars, chatVars>>

\* addMessage: findOne() settles; the message is made, its timestamp the
\* time of this step, and its save() issued.
AddFindOne(r, findOk, dt) ==
    /\ ChatAt(r, "add", "findOne")
    /\ now' = now + dt
    /\ FoundOwned(r, findOk, "saveMessage", now')
    /\ UNCHANGED <<indexVars, authVars, messages, conversations, queries>>

\* addMessage: message.save() settles; conversation.save() is issued.
AddSaveMessage(r, saveOk) ==
    /\ ChatAt(r, "add", "saveMessage")
    /\ LET request == chatRequests[r]
       IN IF saveOk /\ ValidMessage(request.doc.id, request.body.role.role,
                                    request.body.content)
          THEN /\ messages' = Append(messages,
                     Message(request.doc.id, request.body.role.role,
                             request.body.content, request.stamp, Null, 0))
               /\ ChatSuspended(r, [request EXCEPT !.pc = "saveConversation"])
          ELSE /\ messages' = messages
               /\ ChatResponded(r, 500, Null)
    /\ UNCHANGED <<indexVars, authVars, conversations, queries, now>>

\* addMessage: conversation.save() settles.
AddSaveConversation(r, saveOk, dt) ==
    /\ ChatAt(r, "add", "saveConversation")
    /\ now' = now + dt
    /\ IF saveOk /\ Stored(chatRequests[r].doc.id)
       THEN /\ conversations' = Saved(chatRequests[r].doc.id, Undefined,
                                      FALSE, now')
            /\ ChatResponded(r, 201, Null)
       ELSE /\ conversations' = conversations
            /\ ChatResponded(r, 500, Null)
    /\ UNCHANGED <<indexVars, authVars, messages, queries>>

\* updateConversation: findOne() settles.
UpdateFindOne(r, findOk) ==
    /\ ChatAt(r, "update", "findOne")
    /\ FoundOwned(r, findOk, "save", 0)
    /\ UNCHANGED <<indexVars, authVars, chatVars>>

\* updateConversation: conversation.save() settles.
UpdateSave(r, saveOk, dt) ==
    /\ ChatAt(r, "update", "save")
    /\ now' = now + dt
    /\ IF saveOk /\ Stored(chatRequests[r].doc.id)
       THEN /\ conversations' = Saved(chatRequests[r].doc.id,
                                      chatRequests[r].body.title, FALSE, now')
            /\ ChatResponded(r, 200, Null)
       ELSE /\ conversations' = conversations
            /\ ChatResponded(r, 500, Null)
    /\ UNCHANGED <<indexVars, authVars, messages, queries>>

\* deleteConversation: findOne() settles.
DeleteFindOne(r, findOk) ==
    /\ ChatAt(r, "delete", "findOne")
    /\ FoundOwned(r, findOk, "save", 0)
    /\ UNCHANGED <<indexVars, authVars, chatVars>>

\* deleteConversation: conversation.save() settles with isActive = false.
DeleteSave(r, saveOk, dt) ==
    /\ ChatAt(r, "delete", "save")
    /\ now' = now + dt
    /\ IF saveOk /\ Stored(chatRequests[r].doc.id)
       THEN /\ conversations' = Saved(chatRequests[r].doc.id, Undefined,
                                      TRUE, now')
            /\ ChatResponded(r, 200, Null)
       ELSE /\ conversations' = conversations
            /\ ChatResponded(r, 500, Null)
    /\ UNCHANGED <<indexVars, authVars, messages, queries>>

\* hardDeleteConversation: findOne() settles.
HardDeleteFindOne(r, findOk) ==
    /\ ChatAt(r, "hardDelete", "findOne")
    /\ FoundOwned(r, findOk, "deleteMany", 0)
    /\ UNCHANGED <<indexVars, authVars, chatVars>>

\* hardDeleteConversation: Message.deleteMany({conversationId}) settles.
HardDeleteMessages(r, deleteOk) ==
    /\ ChatAt(r, "hardDelete", "deleteMany")
    /\ IF deleteOk
       THEN /\ messages' = SelectSeq(messages,
                  LAMBDA m : m.conversationId # chatRequests[r].conv)
            /\ ChatSuspended(r, [chatRequests[r] EXCEPT !.pc = "deleteOne"])
       ELSE /\ messages' = messages
            /\ ChatResponded(r, 500, Null)
    /\ UNCHANGED <<indexVars, authVars, conversations, queries, now>>

\* hardDeleteConversation: Conversation.deleteOne({_id}) settles.
HardDeleteOne(r, deleteOk) ==
    /\ ChatAt(r, "hardDelete", "deleteOne")
    /\ IF deleteOk
       THEN /\ conversations' =
                  {c \in conversations : c.id # chatRequests[r].conv}
            /\ ChatResponded(r, 200, Null)
       ELSE /\ conversations' = conversations
            /\ ChatResponded(r, 500, Null)
    /\ UNCHANGED <<indexVars, authVars, messages, queries, now>>

\* Bodies sent with a request of each kind: an initial message of at most
\* and of more than 30 characters and a title for createConversation, role
\* and content for addMessage, a title for updateConversation.
ShortText == Chars(<<"G", "i", "z", "a">>)
LongText == Chars([i \in 1..(TitleLength + 1) |-> "a"])
SomeTitle == [title |-> "Old Kingdom"]

BodiesOf(kind) ==
    CASE kind = "create" ->
            {NoBody, [NoBody EXCEPT !.message = ShortText],
             [NoBody EXCEPT !.message = LongText],
             [NoBody EXCEPT !.title = SomeTitle, !.message = ShortText]}
      [] kind = "add" ->
            {NoBody, [NoBody EXCEPT !.role = Role("user"),
                                    !.content = Str(<<W("Who was Khufu?")>>)]}
      [] kind = "update" -> {NoBody, [NoBody EXCEPT !.title = SomeTitle]}
      [] OTHER -> {NoBody}

\* One body for each kind of request.
BodyOf(kind) ==
    CASE kind = "create" -> {[NoBody EXCEPT !.message = ShortText]}
      [] kind = "add" ->
            {[NoBody EXCEPT !.role = Role("user"),
                            !.content = Str(<<W("Who was Khufu?")>>)]}
      [] kind = "update" -> {[NoBody EXCEPT !.title = SomeTitle]}
      [] OTHER -> {NoBody}

\* The requests of the chat router, sent with the given Authorization
\* headers and with any of the bodies or one body for each kind, and the
\* steps of the middleware and of the handlers.
ChatNextOf(headers, anyBody) ==
    \/ \E k \in ChatKinds, h \in headers :
          \E b \in (IF anyBody THEN BodiesOf(k) ELSE BodyOf(k)) :
             ChatReceive(k, h, Conv("c1"), b)
    \/ \E r \in DOMAIN chatRequests, ok \in BOOLEAN : ChatAuth(r, ok)
    \/ \E r \in DOMAIN chatRequests, ok \in BOOLEAN, dt \in {0, 1} :
          CreateSave(r, ok, dt)
    \/ \E r \in DOMAIN chatRequests, ok \in BOOLEAN : CreateSaveMessage(r, ok)
    \/ \E r \in DOMAIN chatRequests, ok \in BOOLEAN, dt \in {0, 1} :
          CreateSaveTitle(r, ok, dt)
    \/ \E r \in DOMAIN chatRequests, ok \in BOOLEAN : ListFind(r, ok)
    \/ \E r \in DOMAIN chatRequests, ok \in BOOLEAN : GetFindOne(r, ok)
    \/ \E r \in DOMAIN chatRequests, ok \in BOOLEAN, tie \in TieBreaks :
          GetFindMessages(r, ok, tie)
    \/ \E r \in DOMAIN chatRequests, ok \in BOOLEAN, dt \in {0, 1} :
          AddFindOne(r, ok, dt)
    \/ \E r \in DOMAIN chatRequests, ok \in BOOLEAN : AddSaveMessage(r, ok)
    \/ \E r \in DOMAIN chatRequests, ok \in BOOLEAN, dt \in {0, 1} :
          AddSaveConversation(r, ok, dt)
    \/ \E r \in DOMAIN chatRequests, ok \in BOOLEAN : UpdateFindOne(r, ok)
    \/ \E r \in DOMAIN chatRequests, ok \in BOOLEAN, dt \in {0, 1} :
          UpdateSave(r, ok, dt)
    \/ \E r \in DOMAIN chatRequests, ok \in BOOLEAN : DeleteFindOne(r, ok)
    \/ \E r \in DOMAIN chatRequests, ok \in BOOLEAN, dt \in {0, 1} :
          DeleteSave(r, ok, dt)
    \/ \E r \in DOMAIN chatRequests, ok \in BOOLEAN : HardDeleteFindOne(r, ok)
    \/ \E r \in DOMAIN chatRequests, ok \in BOOLEAN : HardDeleteMessages(r, ok)
    \/ \E r \in DOMAIN chatRequests, ok \in BOOLEAN : HardDeleteOne(r, ok)

\* An account as signup, and verify when verified, leave it.
Account(id, email, verified) ==
    [NewUser(id, email, Hash(<<"p", "h", "a", "r", "a", "o", "h", "1", "2", "3">>))
        EXCEPT !.verified = verified,
               !.verificationToken =
                   IF verified THEN Undefined ELSE VerificationToken(id)]

\* Authorization headers of the two users that have logged in.
OwnerHeaders == {Bearer(AccessToken(1), FALSE), Bearer(AccessToken(2), FALSE)}

\* No header, another scheme, a token not signed with the secret, an
\* expired access token, a signed token whose user is not in the store, the
\* verification token mailed to the user who has not verified, and an
\* access token login issued.
AnyHeaders ==
    {Undefined, Basic, Bearer(Forged, FALSE), Bearer(AccessToken(1), TRUE),
     Bearer(AccessToken(9), FALSE), Bearer(VerificationToken(3), FALSE),
     Bearer(AccessToken(1), FALSE)}

\* The server starts with two verified users that have logged in, each
\* with a conversation, and a user that has signed up and not verified.
ChatInit ==
    /\ up = TRUE
    /\ indexingStatus = InitialStatus
    /\ procs = {}
    /\ dataFiles = {UploadName}
    /\ metaFiles = {MetadataOf(UploadName)}
    /\ clock = 0
    /\ lastStep = [op |-> "start"]
    /\ latestRun = NoRun
    /\ succeeded = {}
    /\ pendingUpload = {}
    /\ staleMeta = {}
    /\ storedUpload = NoUpload
    /\ uploadedDocs = {}
    /\ messages = StoredMessages(3)
    /\ now = 2
    /\ conversations = {Conversation(Conv("c1"), 1, 0),
                        Conversation(Conv("c2"), 2, 0)}
    /\ queries = <<>>
    /\ users = {Account(1, "omar@example.com", TRUE),
                Account(2, "sara@example.com", TRUE),
                Account(3, "tiy@example.com", FALSE)}
    /\ authRequests = <<>>
    /\ mailbox = {VerificationToken(1), VerificationToken(2),
                  VerificationToken(3)}
    /\ issued = {AccessToken(1), AccessToken(2)}
    /\ verifications = {1, 2}
    /\ chatRequests = <<>>

\* The two owners use the chat API, their requests interleaved.
ChatNext == ChatNextOf(OwnerHeaders, TRUE)

\* Clients send requests with any Authorization header.
GateNext == ChatNextOf(AnyHeaders, FALSE)

\* Clients send queries that name conversation c1: without a header, with
\* the access token of its owner, and with that of the other user.
OpenQueryNext ==
    HistoryNextOf({Undefined} \cup OwnerHeaders, {Conv("c1")}, {Answer1})

ChatSpec == ChatInit /\ [][ChatNext]_vars

OpenQuerySpec == ChatInit /\ [][OpenQueryNext]_vars

GateSpec == ChatInit /\ [][GateNext]_vars

Spec == IndexSpec

(* ------------------------------ claims -------------------------------- *)

InFlight(f) == {p \in procs : p.file = f}

IndexStep(step) == step.op = "index"

Accepted(step) == step.op = "index" /\ step.code = 202

Terminal(status) ==
    /\ ~status.isIndexing
    /\ (status.lastIndexed # Null \/ status.error # Null)

\* C1: while an indexing run of a document is in flight, every further index
\* request for that document is answered 409 and spawns no process, so at
\* most one run per document is in flight in every reachable state.
C1_SingleFlightPerDocument ==
    /\ [](\A f \in Files : Cardinality(InFlight(f)) <= 1)
    /\ [][\A f \in Files :
            (InFlight(f) # {} /\ IndexStep(lastStep') /\ lastStep'.req = Name(f))
               => (lastStep'.code = 409 /\ procs' = procs)]_vars

C1_Witness ==
    /\ IndexStep(lastStep)
    /\ lastStep.code = 409
    /\ \E p \in procs : lastStep.req = Name(p.file)

C3_TerminalUntilAccepted ==
    [][(Terminal(indexingStatus) /\ indexingStatus' # indexingStatus)
          => (Accepted(lastStep') /\ indexingStatus'.isIndexing)]_vars

\* C3 amended: a terminal status changes only when an index request gets past
\* the 409/400/404 checks: accepted (202) it moves to indexing, and failing
\* while the indexer is started (500) it is left failed with the error set.
C3_TerminalUntilIndexRequest ==
    [][(Terminal(indexingStatus) /\ indexingStatus' # indexingStatus)
          => /\ IndexStep(lastStep')
             /\ \/ /\ lastStep'.code = 202
                   /\ indexingStatus'.isIndexing
                   /\ indexingStatus'.lastIndexed = Null
                   /\ indexingStatus'.error = Null
                \/ /\ lastStep'.code = 500
                   /\ ~indexingStatus'.isIndexing
                   /\ indexingStatus'.error # Null]_vars

C3_Witness ==
    /\ Accepted(lastStep)
    /\ indexingStatus.isIndexing
    /\ succeeded # {}

\* C4: after the close event of a run whose indexer exited with a non-zero
\* code the status has isIndexing = false, an error and no lastIndexed, also
\* when an earlier run had succeeded.
C4_FailedRunLeavesNoStaleIndexed ==
    (lastStep.op = "close" /\ lastStep.code # 0)
       => /\ ~indexingStatus.isIndexing
          /\ indexingStatus.error # Null
          /\ indexingStatus.lastIndexed = Null

C4_Witness ==
    /\ lastStep.op = "close"
    /\ lastStep.code # 0
    /\ succeeded # {}

\* C5: when a run has closed, error # null implies lastIndexed = null
\* (a run that reported an error never ends showing success).
C5_ErrorExcludesSuccess ==
    lastStep.op = "close"
       => (indexingStatus.error # Null => indexingStatus.lastIndexed = Null)

\* C6: progress = 100 implies that the latest run's process has exited with
\* code 0.
C6_Progress100OnlyOnSuccess ==
    indexingStatus.progress = 100
       => (latestRun.state = "closed" /\ latestRun.code = 0)

\* C7: within one run the progress never decreases and always lies in
\* 0..100.
C7_ProgressMonotoneBounded ==
    /\ [](indexingStatus.progress \in 0..100)
    /\ [][(indexingStatus.isIndexing /\ indexingStatus'.isIndexing
              /\ clock' = clock)
             => indexingStatus'.progress >= indexingStatus.progress]_vars

C9_AcceptedEventuallyTerminal ==
    [](Accepted(lastStep) => <>Terminal(indexingStatus))

\* C10: after a successful upload of F the documents listing reports F with
\* indexed = false until an indexing run of F started after that upload has
\* completed.
C10_UploadMarksUnindexed ==
    \A d \in Documents : d.filename \in pendingUpload => ~d.indexed

\* C11: whenever the documents listing reports a document as indexed, its
\* index metadata was produced by an indexing run that started after the
\* most recent upload of that document.
C11_ListedIndexedIsFresh ==
    \A d \in Documents : d.indexed => MetadataOf(d.filename) \notin staleMeta

\* C12: a restart resets indexingStatus to its initial value and keeps the
\* files; every document listed as indexed before the restart is listed as
\* indexed after it, and a query with text that follows the restart is
\* forwarded to the model server without an index request in between.
C12_IndexSurvivesRestart ==
    /\ [][lastStep'.op = "restart"
            => /\ indexingStatus' = InitialStatus
               /\ dataFiles' = dataFiles
               /\ \A f \in dataFiles : IsIndexed(f) => IsIndexed(f)']_vars
    /\ [][(lastStep.op = "restart" /\ lastStep'.op = "query"
             /\ lastStep'.hasText)
            => lastStep'.forwarded /\ lastStep'.code \in {200, 500}]_vars

C12_Witness ==
    /\ lastStep.op = "query"
    /\ lastStep.forwarded
    /\ indexingStatus = InitialStatus
    /\ \E f \in succeeded \cap dataFiles : IsIndexed(f)

\* C13: after successful uploads of distinct documents every one of them is
\* stored and listed as a document of its own, and none has been replaced by
\* a later upload.
C13_DistinctUploadsKeptApart ==
    /\ Cardinality({StoredName(o) : o \in uploadedDocs}
                     \cap {d.filename : d \in Documents})
          = Cardinality(uploadedDocs)
    /\ \A o \in uploadedDocs : storedUpload = o

\* C18: a query with text is never refused or held back on account of the
\* indexing status (a run in flight, no completed run recorded): it is
\* forwarded to the model server; and handling a query leaves
\* indexingStatus as it was.
C18_QueryIndependentOfIndexing ==
    [][lastStep'.op = "query"
         => /\ indexingStatus' = indexingStatus
            /\ procs' = procs
            /\ lastStep'.hasText
                 => lastStep'.forwarded /\ lastStep'.code \in {200, 500}]_vars

C18_Witness ==
    /\ lastStep.op = "query"
    /\ lastStep.forwarded
    /\ indexingStatus.isIndexing
    /\ indexingStatus.lastIndexed = Null
    /\ procs # {}

\* The step answers a query request with 200 and a JSON body.
AnsweredJson(step) ==
    step.op = "query" /\ step.code = 200 /\ step.type = "json"

\* What the model server's reply supplies for field k of its response.
Supplied(reply, k) == Get(Get(reply, "response"), k)

\* The reply carries an object-valued response.
HasObjectResponse(reply) ==
    /\ reply # CallFailed
    /\ ~Falsy(reply)
    /\ ~Falsy(Get(reply, "response"))
    /\ TypeOfObject(Get(reply, "response"))

\* C14: every 200 JSON query response carries answer as a string, sources
\* as a list, and enhanced_query and original_query each as null or as the
\* value the model server supplied, whatever the model server replied.
C14_ResponseShape ==
    AnsweredJson(lastStep)
      => /\ IsText(Get(lastStep.body, "answer"))
         /\ IsList(Get(lastStep.body, "sources"))
         /\ Get(lastStep.body, "enhanced_query")
               \in {Null, Supplied(lastStep.reply, "enhanced_query")}
         /\ Get(lastStep.body, "original_query")
               \in {Null, Supplied(lastStep.reply, "original_query")}

\* C15: a query for which no usable answer was obtained (the call failed or
\* the reply has no object-valued response) is never answered 200.
C15_NoAnswerIsFailure ==
    (lastStep.op = "query" /\ lastStep.hasText
       /\ ~HasObjectResponse(lastStep.reply))
      => lastStep.code # 200

\* C16: a failed call to the model server is answered 500 with
\* success = false and no answer, and the model server is called exactly
\* once for every accepted query request (never for a rejected one).
C16_FailedCallIsFailure ==
    /\ (lastStep.op = "query" /\ lastStep.reply = CallFailed)
         => /\ lastStep.code = 500
            /\ lastStep.body.success = FALSE
            /\ "answer" \notin DOMAIN lastStep.body
    /\ \A q \in DOMAIN queries :
          /\ queries[q].calls <= 1
          /\ Falsy(queries[q].text) => queries[q].calls = 0
          /\ (queries[q].pc = "done" /\ ~Falsy(queries[q].text))
                => queries[q].calls = 1

C16_Witness ==
    /\ lastStep.op = "query"
    /\ lastStep.reply = CallFailed
    /\ lastStep.code = 500
    /\ queries[lastStep.id].calls = 1
    /\ ~Falsy(queries[lastStep.id].conv)

\* The step sends query request q's call to the model server.
SendsRequest(q) ==
    /\ queries'[q].pc = "model"
    /\ q \in DOMAIN queries => queries[q].pc # "model"

\* window lists, oldest first, the min(10, n) most recent of the n stored
\* messages of conversation conv, none of them written by request q.
IsRecentWindow(window, conv, q) ==
    LET stored == {i \in 1..Len(messages) : messages[i].conversationId = conv}
    IN /\ Len(window) = Min(HistoryLimit, Cardinality(stored))
       /\ \A k \in 1..Len(window) : window[k] \in stored
       /\ \A k, l \in 1..Len(window) :
             k < l => /\ window[k] # window[l]
                      /\ messages[window[k]].timestamp
                            <= messages[window[l]].timestamp
       /\ \A i \in stored :
             (\A k \in 1..Len(window) : window[k] # i)
                => \A k \in 1..Len(window) :
                      messages[i].timestamp <= messages[window[k]].timestamp
       /\ \A k \in 1..Len(window) : messages[window[k]].by # q

\* C17: the chat_history sent for a query with a conversationId is the
\* min(10, n) most recent stored messages of the conversation, oldest
\* first, without the current question; without a conversationId it is
\* empty.
C17_HistoryIsRecentWindow ==
    [][\A q \in DOMAIN queries' :
         SendsRequest(q)
           => IF Falsy(queries'[q].conv)
              THEN queries'[q].request.chat_history = <<>>
              ELSE /\ IsRecentWindow(queries'[q].window, queries'[q].conv, q)
                   /\ queries'[q].request.chat_history
                         = ChatHistoryOf(queries'[q].window)]_vars

\* C17, amended: as C17, unless reading the history failed: then the
\* chat_history sent is empty.
C17_HistoryIsRecentWindowUnlessReadFails ==
    [][\A q \in DOMAIN queries' :
         SendsRequest(q)
           => IF Falsy(queries'[q].conv)
                   \/ queries'[q].historyRead = "failed"
              THEN queries'[q].request.chat_history = <<>>
              ELSE /\ IsRecentWindow(queries'[q].window, queries'[q].conv, q)
                   /\ queries'[q].request.chat_history
                         = ChatHistoryOf(queries'[q].window)]_vars

C17_Witness ==
    \E q \in DOMAIN queries :
       /\ queries[q].pc = "model"
       /\ queries[q].historyRead = "ok"
       /\ Len(queries[q].window) = HistoryLimit
       /\ Len(queries[q].request.chat_history) = HistoryLimit
       /\ Len(messages) > HistoryLimit + 1
       /\ \E k \in 1..HistoryLimit : messages[queries[q].window[k]].by # 0

\* C19: in every 200 JSON query response whose enhanced_query is not null,
\* original_query is the query text of the request.
C19_OriginalQueryIsLiteral ==
    (AnsweredJson(lastStep) /\ Get(lastStep.body, "enhanced_query") # Null)
      => Get(lastStep.body, "original_query") = lastStep.text

C19_Witness ==
    /\ AnsweredJson(lastStep)
    /\ Get(lastStep.body, "enhanced_query") = Enhanced1
    /\ Get(lastStep.body, "original_query") = lastStep.text

\* C20: every access token login has issued is for a user whose verified
\* flag is true and whom a verify request has verified before.
C20_LoginOnlyAfterVerify ==
    \A t \in issued :
       /\ t.id \in verifications
       /\ \E u \in users : u.id = t.id /\ u.verified

C20_Witness ==
    /\ lastStep.op = "login"
    /\ lastStep.code = 200
    /\ lastStep.token \in issued
    /\ lastStep.userId \in verifications

\* C26: an index request answered 409, 400 or 404 leaves indexingStatus
\* exactly as it was and spawns no indexer process.
C26_RejectedIndexChangesNothing ==
    [][(IndexStep(lastStep') /\ lastStep'.code \in {409, 400, 404})
          => /\ indexingStatus' = indexingStatus
             /\ procs' = procs
             /\ latestRun' = latestRun]_vars

C26_Witness ==
    /\ IndexStep(lastStep)
    /\ lastStep.code = 409
    /\ procs # {}
    /\ indexingStatus.isIndexing
    /\ indexingStatus.progress > 0

\* C21: no stored account has a password with fewer than 8 characters,
\* without a letter or without a digit: signup rejects such a password and
\* creates no user.
C21_SignupEnforcesPasswordRequirements ==
    \A u \in users : MeetsPasswordRequirements(u.password.hash)

\* The accounts another request has created for the email of signup r.
AccountsOfOthers(r) ==
    {u \in FindByEmail(authRequests[r].email) : u.id # r}

NoSharedEmail(accounts) ==
    \A u \in accounts, v \in accounts : u.email = v.email => u = v

\* C29 as stated: no two users share an email, and a signup answered while
\* the email has an account is answered 409 and leaves every account as it
\* was.
C29_OneAccountPerEmail ==
    [][/\ NoSharedEmail(users')
       /\ (lastStep'.op = "signup" /\ AccountsOfOthers(lastStep'.id) # {})
             => (lastStep'.code = 409 /\ users' = users)]_vars

\* C29 amended: no two users share an email, and a signup answered while the
\* email has an account is answered 409 or 500, never 201, and leaves every
\* account as it was.
C29_OneAccountPerEmailOrFailure ==
    [][/\ NoSharedEmail(users')
       /\ (lastStep'.op = "signup" /\ AccountsOfOthers(lastStep'.id) # {})
             => (lastStep'.code \in {409, 500} /\ users' = users)]_vars

C29_Witness ==
    /\ lastStep.op = "signup"
    /\ lastStep.code = 409
    /\ \E u \in users : u.verified /\ u.id # lastStep.id

\* C30: when signup answers 500 no account made by that request is stored,
\* so the same email can sign up again.
C30_FailedSignupLeavesNoAccount ==
    (lastStep.op = "signup" /\ lastStep.code = 500)
       => FindById(lastStep.id) = {}

\* The header holds a Bearer token that verifies under the JWT secret and
\* names an existing user.
Authentic(header) ==
    /\ header # Undefined
    /\ header.scheme = "Bearer"
    /\ header.token.kind \in {"verification", "access"}
    /\ ~header.expired
    /\ \E u \in users : u.id = header.token.id

\* The request is inside a chat controller handler.
InHandler(request) ==
    request.pc \notin {"new", "auth", "authAgain", "done", "lost"}

\* C22 as stated: no chat handler runs for a request without an authentic
\* Bearer token, and such a request is answered 401 and changes no
\* conversation and no message.
C22_ChatGuarded ==
    [][/\ \A r \in DOMAIN chatRequests' :
             InHandler(chatRequests'[r]) => Authentic(chatRequests'[r].bearer)
       /\ (lastStep'.op = "chat" /\ ~Authentic(lastStep'.bearer))
             => /\ lastStep'.code = 401
                /\ conversations' = conversations
                /\ messages' = messages]_vars

\* C22 amended: no chat handler runs for a request without an authentic
\* Bearer token, and such a request is answered 401, or 500 when the user
\* lookup of the middleware fails, and changes no conversation and no
\* message.
C22_ChatGuardedOrServerError ==
    [][/\ \A r \in DOMAIN chatRequests' :
             InHandler(chatRequests'[r]) => Authentic(chatRequests'[r].bearer)
       /\ (lastStep'.op = "chat" /\ ~Authentic(lastStep'.bearer))
             => /\ lastStep'.code \in {401, 500}
                /\ lastStep'.userId = 0
                /\ conversations' = conversations
                /\ messages' = messages]_vars

C22_Witness ==
    /\ lastStep.op = "chat"
    /\ lastStep.kind = "hardDelete"
    /\ lastStep.bearer = Bearer(AccessToken(9), FALSE)
    /\ lastStep.code = 401
    /\ \E r \in DOMAIN chatRequests : InHandler(chatRequests[r])

\* C28: every request the auth middleware has admitted carries an access
\* token login has issued, and its user is verified.
C28_OnlyVerifiedUsersAdmitted ==
    \A r \in DOMAIN chatRequests :
       InHandler(chatRequests[r])
          => /\ chatRequests[r].bearer.token \in issued
             /\ \E u \in users : u.id = chatRequests[r].userId /\ u.verified

\* The handlers that work on the conversation named in the route.
OnConversation == {"get", "add", "update", "delete", "hardDelete"}

MessagesOf(store, id) ==
    SelectSeq(store, LAMBDA m : m.conversationId = id)

\* The step answers a request on a conversation that is in the store and
\* is not owned by the user the middleware admitted.
AnswersForeign(step) ==
    /\ step.op = "chat"
    /\ step.kind \in OnConversation
    /\ step.userId # 0
    /\ \E c \in conversations : c.id = step.conv /\ c.userId # step.userId

\* A successful getConversations returns exactly the active conversations
\* of the caller.
ListsOwnActive(step) ==
    (step.op = "chat" /\ step.kind = "list" /\ step.code = 200)
       => {step.body[i] : i \in DOMAIN step.body}
             = {c \in conversations : c.userId = step.userId /\ c.isActive}

\* Only a step of a request of its owner changes a conversation or its
\* messages.
ChangedByOwnerOnly ==
    \A c \in conversations :
       (c \notin conversations'
          \/ MessagesOf(messages', c.id) # MessagesOf(messages, c.id))
       => chatRequests[lastStep'.id].userId = c.userId

\* C23 as stated: getConversations returns exactly the caller's active
\* conversations, and a request on a conversation of another user is
\* answered 404 and leaves the conversation and its messages unchanged.
C23_PerUserAccess ==
    [][/\ ListsOwnActive(lastStep')
       /\ ChangedByOwnerOnly
       /\ AnswersForeign(lastStep')
             => /\ lastStep'.code = 404
                /\ conversations' = conversations
                /\ messages' = messages]_vars

\* C23 amended: the answer to a request on a conversation of another user
\* is 404, or 500 when a lookup fails, or 400 for an addMessage without
\* role or content.
C23_PerUserAccessOrRejected ==
    [][/\ ListsOwnActive(lastStep')
       /\ ChangedByOwnerOnly
       /\ AnswersForeign(lastStep')
             => /\ lastStep'.code \in {404, 500}
                      \/ (lastStep'.code = 400 /\ lastStep'.kind = "add")
                /\ conversations' = conversations
                /\ messages' = messages]_vars

C23_Witness ==
    /\ lastStep.op = "chat"
    /\ lastStep.kind = "hardDelete"
    /\ lastStep.code = 404
    /\ lastStep.userId = 2
    /\ \E c \in conversations : c.id = lastStep.conv /\ c.userId = 1
    /\ Len(MessagesOf(messages, lastStep.conv)) = 3

\* C24: no step sets isActive of a conversation back to true; a successful
\* deleteConversation leaves the record, now inactive, and all messages in
\* the store; and a successful getConversations returns no conversation
\* that is inactive.
C24_SoftDeleteIsFinal ==
    [][/\ \A c \in conversations, d \in conversations' :
             (d.id = c.id /\ ~c.isActive) => ~d.isActive
       /\ (lastStep'.op = "chat" /\ lastStep'.kind = "delete"
               /\ lastStep'.code = 200)
             => /\ \E d \in conversations' :
                      d.id = lastStep'.conv /\ ~d.isActive
                /\ {d.id : d \in conversations'}
                      = {c.id : c \in conversations}
                /\ messages' = messages
       /\ (lastStep'.op = "chat" /\ lastStep'.kind = "list"
               /\ lastStep'.code = 200)
             => \A i \in DOMAIN lastStep'.body :
                   \A c \in conversations :
                      c.id = lastStep'.body[i].id => c.isActive]_vars

C24_Witness ==
    /\ lastStep.op = "chat"
    /\ lastStep.kind = "list"
    /\ lastStep.code = 200
    /\ lastStep.userId = 1
    /\ lastStep.body = <<>>
    /\ \E c \in conversations : c.id = Conv("c1") /\ ~c.isActive
    /\ Len(MessagesOf(messages, Conv("c1"))) = 3

\* C25: every stored message refers to a conversation that is in the store,
\* in every interleaving of hardDeleteConversation with addMessage.
C25_NoMessageWithoutConversation ==
    \A i \in DOMAIN messages :
       \E c \in conversations : c.id = messages[i].conversationId

\* The header authenticates the owner of the conversation.
AuthenticatesOwner(header, conv) ==
    /\ Authentic(header)
    /\ \E c \in conversations : c.id = conv /\ c.userId = header.token.id

\* C27: a query request reads the messages of a conversation as chat
\* history, or appends a message to it, only when it came with a token of
\* the conversation's owner.
C27_QueryOnBehalfOfOwner ==
    [][\A q \in DOMAIN queries :
          (\/ /\ queries[q].historyRead = "none"
              /\ queries'[q].historyRead = "ok"
           \/ \E i \in DOMAIN messages' :
                 i > Len(messages) /\ messages'[i].by = q)
          => AuthenticatesOwner(queries[q].bearer, queries[q].conv)]_vars

\* No step resets a verified flag, and no step changes a user when a verify
\* request arrives with a token that is not signed or has expired, which is
\* answered 400.
VerifiedForGood ==
    /\ \A u \in users : u.verified => \E v \in users' : v.id = u.id /\ v.verified
    /\ ("expired" \in DOMAIN lastStep'
          /\ (lastStep'.token = Forged \/ lastStep'.expired))
         => /\ lastStep'.op = "verify"
            /\ lastStep'.code = 400
            /\ users' = users

\* The step answers verify request r, whose token names a verified user.
AnswersVerified(step) ==
    /\ step.op = "verify"
    /\ step.id \in DOMAIN authRequests
    /\ \E u \in users :
          u.id = authRequests[step.id].token.id /\ u.verified

\* C31 as stated: a verified flag is never reset; verify on a verified user
\* answers 200 and changes nothing; verify with an invalid or expired token
\* answers 400 and changes no user.
C31_VerifyMonotoneIdempotent ==
    [][/\ VerifiedForGood
       /\ AnswersVerified(lastStep')
             => (lastStep'.code = 200 /\ users' = users)]_vars

\* C31 amended: verify on a verified user answers 200, or 400 when the
\* store operation of the request fails, and changes nothing.
C31_VerifyMonotoneIdempotentOrStoreFailure ==
    [][/\ VerifiedForGood
       /\ AnswersVerified(lastStep')
             => (lastStep'.code \in {200, 400} /\ users' = users)]_vars

C31_Witness ==
    /\ lastStep.op = "verify"
    /\ lastStep.code = 200
    /\ lastStep.message = "Already verified."
    /\ \E u \in users : u.verified

\* The messages query request q has written, in the order of their
\* insertion.
WrittenBy(store, q) == SelectSeq(store, LAMBDA m : m.by = q)

\* C32: when a query that names a conversation of the store is answered
\* 200, it has appended exactly two messages to that conversation: its
\* question as a user message, then the returned answer as an assistant
\* message whose metadata holds the returned sources, enhanced_query and
\* original_query.
C32_AnsweredQueryStoresPair ==
    [][\A q \in DOMAIN queries :
          (/\ lastStep'.op = "query" /\ lastStep'.id = q
           /\ lastStep'.code = 200
           /\ \E c \in conversations : c.id = queries[q].conv)
          => LET mine == WrittenBy(messages', q)
             IN /\ Len(mine) = 2
                /\ mine[1].role = "user"
                /\ mine[1].content = queries[q].text
                /\ mine[1].conversationId = queries[q].conv
                /\ mine[2].role = "assistant"
                /\ mine[2].conversationId = queries[q].conv
                /\ mine[2].content = Get(lastStep'.body, "answer")
                /\ mine[2].metadata.sources = Get(lastStep'.body, "sources")
                /\ mine[2].metadata.enhanced_query
                      = Get(lastStep'.body, "enhanced_query")
                /\ mine[2].metadata.original_query
                      = Get(lastStep'.body, "original_query")]_vars

\* C33: no message written by another query lies, by timestamp, strictly
\* between the user message and the assistant message a query has written
\* to the same conversation.
C33_PairsNotInterleaved ==
    \A i, j, k \in DOMAIN messages :
       (/\ messages[i].by # 0
        /\ messages[j].by = messages[i].by
        /\ messages[i].role = "user"
        /\ messages[j].role = "assistant"
        /\ messages[k].by \notin {0, messages[i].by}
        /\ messages[k].conversationId = messages[i].conversationId)
       => ~(/\ messages[i].timestamp < messages[k].timestamp
            /\ messages[k].timestamp < messages[j].timestamp)

\* The step that sends the response of a query.
AnswersQuery == lastStep'.op = "query" /\ queries' # queries

\* C34: a query answered 400 or 500 has written no message and its answer
\* changes neither the messages nor the conversations; a query answered 400
\* has made no call to the model server; and a conversation changes only
\* in the step that answers a query with 200.
C34_RejectedOrFailedQueryStoresNothing ==
    [][/\ (AnswersQuery /\ lastStep'.code \in {400, 500})
          => /\ messages' = messages
             /\ conversations' = conversations
             /\ WrittenBy(messages', lastStep'.id) = <<>>
             /\ lastStep'.code = 400
                   => /\ ~lastStep'.forwarded
                      /\ queries'[lastStep'.id].calls = 0
       /\ conversations' # conversations
             => AnswersQuery /\ lastStep'.code = 200]_vars

\* A query on the stored conversation was answered 500 after the model
\* server had been called, and none of the stored messages is its own.
C34_Witness ==
    /\ lastStep.op = "query"
    /\ lastStep.code = 500
    /\ lastStep.forwarded
    /\ queries[lastStep.id].conv = Conv("c1")
    /\ \E c \in conversations : c.id = Conv("c1")
    /\ WrittenBy(messages, lastStep.id) = <<>>

\* The steps of a query after the model server has replied.
SavingSteps == {"conversation", "saveUser", "saveAssistant", "saveConversation"}

\* C35: a query whose history read fails calls the model server with an
\* empty chat history; and a query for which the model server has replied
\* is answered 200 with the generated answer, whatever the lookup of the
\* conversation and the saves of the question, the answer and the
\* conversation did.
C35_StoreFailuresNeverFailQuery ==
    [][\A q \in DOMAIN queries :
          /\ (queries[q].pc = "history" /\ queries'[q].historyRead = "failed")
                => /\ queries'[q].pc = "model"
                   /\ queries'[q].request.chat_history = <<>>
                   /\ queries'[q].request.query = queries[q].text
          /\ (queries[q].pc \in SavingSteps /\ queries'[q].pc = "done")
                => /\ lastStep'.op = "query"
                   /\ lastStep'.id = q
                   /\ lastStep'.code = 200
                   /\ Get(lastStep'.body, "answer") = queries[q].parsed.answer
                   /\ queries[q].parsed.answer
                         = Parsed(queries[q].reply).answer]_vars

\* A query on the stored conversation was answered 200 with the answer of
\* the model server although none of the stored messages is its own.
C35_Witness ==
    /\ lastStep.op = "query"
    /\ lastStep.code = 200
    /\ Get(lastStep.body, "answer") = Answer1
    /\ queries[lastStep.id].conv = Conv("c1")
    /\ \E c \in conversations : c.id = Conv("c1")
    /\ WrittenBy(messages, lastStep.id) = <<>>

\* C36: the listing names exactly the files of the data directory whose
\* name ends in '.pdf', and a listed document is reported indexed exactly
\* when the vector store holds the metadata file of its own base name.
C36_ListingExact ==
    lastStep.op = "documents"
       => /\ {d.filename : d \in Documents}
                = {f \in dataFiles : EndsWith(Spell(f), DotPdf)}
          /\ \A d \in Documents :
                d.indexed <=> BaseName(d.filename) \in metaFiles

\* The password of a login request is the password of no account that has
\* the request's email.
WrongPassword(request) ==
    \A u \in FindByEmail(request.email) : ~Compare(request.password, u.password)

\* C37: a login with a wrong password that the store does not fail is
\* answered 401 "Invalid credentials.", the answer given when the email has
\* no account, whether the email has no account, an unverified account or a
\* verified one.
C37_WrongPasswordAnswersAlike ==
    [][\A r \in DOMAIN authRequests :
          (/\ authRequests[r].kind = "login"
           /\ authRequests[r].pc # "done"
           /\ authRequests'[r].pc = "done"
           /\ lastStep'.op = "login"
           /\ lastStep'.id = r
           /\ lastStep'.code # 500
           /\ WrongPassword(authRequests[r]))
          => /\ lastStep'.code = 401
             /\ lastStep'.message = "Invalid credentials."]_vars

====
